---- MODULE Spec2Model ----
(***************************************************************************)
(* Model of the HTML/Twig diagnostics of vscode-twig-language-3            *)
(* (src/src/diagnostics.js, bundled again in src/extension/index.js).      *)
(*                                                                         *)
(* Eight specifications share the variables:                               *)
(*   SpecWalk  one validateDocument pass, taken one statement group at a   *)
(*             time over every parsed tree of at most MaxNodes nodes;      *)
(*   Spec      the extension's event handlers (activation, change, open,   *)
(*             debounce timer), each handler one atomic action, as the     *)
(*             JavaScript event loop runs a handler to completion;         *)
(*   SpecMask  preprocessTwig applied to every text of at most MaxPieces   *)
(*             pieces, one replace call per action;                        *)
(*   SpecComplete  provideCompletions called at every position of every    *)
(*             text of at most MaxCursorPieces pieces;                     *)
(*   SpecRange one validateDocument pass over a document with line breaks  *)
(*             and Twig regions, the parser's nodes lying anywhere in the  *)
(*             first MaxOffset characters of the masked text;              *)
(*   SpecHover  provideHover for every word of the hover tables, one loop  *)
(*             per action;                                                 *)
(*   SpecActivate  the event handlers under every combination of the       *)
(*             settings, with or without an active editor;                 *)
(*   SpecDispose  the event handlers, and the disposal of the extension    *)
(*             context's subscriptions.                                    *)
(***************************************************************************)
EXTENDS Integers, Sequences, FiniteSets, TLC

VARIABLES
    htmlLanguageService,   \* module variable: TRUE once getLanguageService() was stored
    diagnosticCollection,  \* module variable: TRUE once the collection was created
    collection,            \* the diagnostic collection: uri -> list last set for it
    setCalls,              \* number of diagnosticCollection.set calls so far
    content,               \* uri -> the tree the HTML parser yields for the masked text
    pass,                  \* the validateDocument invocation in progress (SpecWalk)
    activation,            \* "loaded" before activate(context) ran, "activated" after
    subscribed,            \* TRUE once the change/open listeners are installed
    timeout,               \* closure variable `timeout` of initializeDiagnostics
    timers,                \* the runtime's table of pending setTimeout timers
    now,                   \* the clock, in milliseconds
    changeLog,             \* the change events of twig documents, in order of arrival
    passLog,               \* the validation passes that got past the guard, in order
    opens,                 \* number of open events delivered so far
    activeTextEditor,      \* vscode.window.activeTextEditor's document, or NoEditor
    validation,            \* FALSE when the setting twig-language-2.validation is false
    source,                \* the text given to preprocessTwig / the document's text
    processed,             \* local `processed` of preprocessTwig
    position,              \* the position given to provideCompletions
    completions,           \* the array provideCompletions returns, by category
    textPc,                \* where the call of SpecMask / SpecComplete stands
    entered,               \* the nodes validateNode was called for, in call order (SpecWalk)
    config,                \* the settings autocomplete, hover, formatting read by activate
    providers,             \* the providers activate has registered with vscode.languages
    hoverCall              \* the call of provideHover being followed (SpecHover)

textVars == <<source, processed, position, completions, textPc, hoverCall>>

registrations == <<config, providers>>

vars == <<htmlLanguageService, diagnosticCollection, collection, setCalls, content,
          pass, activation, subscribed, timeout, timers, now, changeLog, passLog, opens,
          activeTextEditor, validation, textVars, entered, registrations>>

(***************************************************************************)
(* Bounds of the model.                                                    *)
(***************************************************************************)
MaxNodes == 3

\* change events and open events delivered in one behaviour
MaxChanges == 2

MaxOpens == 1

\* the clock runs from 0 (activation) to MaxTime in steps of TickMs
MaxTime == 600

TickMs == 150

\* the texts given to preprocessTwig are made of at most MaxPieces pieces
MaxPieces == 5

\* the documents given to provideCompletions are made of at most
\* MaxCursorPieces pieces
MaxCursorPieces == 4

\* the documents of SpecRange are made of at most MaxRangePieces pieces, and
\* the parser places its nodes at offsets up to MaxOffset of the masked text
MaxRangePieces == 3

MaxOffset == 6

(***************************************************************************)
(* JavaScript values.                                                      *)
(***************************************************************************)
\* `undefined` for an offset field (node.endTagStart of a node without end tag)
Undefined == -1

\* a node without a tag: node.tag is undefined (falsy)
NoTag == ""

(***************************************************************************)
(* The parsed tree. A tree is written in document order as a sequence of   *)
(* nodes [tag, depth, closed]; node i's subtree is the run of nodes after  *)
(* it that lie deeper. parseHTMLDocument gives each node the fields the    *)
(* validator reads: tag, start, end, endTagStart, children.                *)
(***************************************************************************)
TagNames == {"div", "DIV", "span", "BR"}

\* String.prototype.toLowerCase on the tag names of the model
toLowerCase(s) ==
    CASE s = "DIV" -> "div"
      [] s = "BR" -> "br"
      [] OTHER -> s

voidElements == {"area", "base", "br", "col", "embed", "hr", "img", "input",
                 "link", "meta", "param", "source", "track", "wbr"}

\* the shapes of a node of the parser's output: an element with or without an
\* end tag, a void element (never with an end tag), a node without a tag
NodeShapes ==
    {[tag |-> g, depth |-> 0, closed |-> c] :
        g \in {x \in TagNames : toLowerCase(x) \notin voidElements}, c \in BOOLEAN}
    \cup {[tag |-> g, depth |-> 0, closed |-> FALSE] :
        g \in {x \in TagNames : toLowerCase(x) \in voidElements} \cup {NoTag}}

\* the depths of n nodes in document order: the first node is a root and a
\* node lies at most one level below the node before it
DepthsOfSize(n) ==
    {d \in [1..n -> 0..(n - 1)] :
        /\ n > 0 => d[1] = 0
        /\ \A i \in 1..(n - 1) : d[i + 1] <= d[i] + 1}

TreesOfSize(n) ==
    {[i \in 1..n |-> [s[i] EXCEPT !.depth = d[i]]] :
        s \in [1..n -> NodeShapes], d \in DepthsOfSize(n)}

\* the last node of node i's subtree
SubtreeLast(t, i) ==
    CHOOSE j \in i..Len(t) :
        /\ \A k \in (i + 1)..j : t[k].depth > t[i].depth
        /\ j = Len(t) \/ t[j + 1].depth <= t[i].depth

\* the members of a set of node indices in document order
RECURSIVE InOrder(_)
InOrder(S) ==
    IF S = {} THEN <<>>
    ELSE LET m == CHOOSE x \in S : \A y \in S : x <= y
         IN <<m>> \o InOrder(S \ {m})

\* Offsets of the layout: every start tag and every end tag (written or implied)
\* takes one character, so node.start < node.endTagStart < node.end and a node
\* without end tag ends where its parent's end tag starts.
NodeStart(t, i) == 2 * (i - 1) - t[i].depth

NodeEnd(t, i) == NodeStart(t, i) + 2 * (SubtreeLast(t, i) - i + 1)

NodeEndTagStart(t, i) == IF t[i].closed THEN NodeEnd(t, i) - 1 ELSE Undefined

NodeChildren(t, i) ==
    InOrder({j \in (i + 1)..SubtreeLast(t, i) : t[j].depth = t[i].depth + 1})

\* htmlLanguageService.parseHTMLDocument: the roots, and per node the fields read
parseHTMLDocument(t) ==
    [roots |-> InOrder({j \in 1..Len(t) : t[j].depth = 0}),
     nodes |-> [i \in 1..Len(t) |->
                    [tag |-> t[i].tag,
                     start |-> NodeStart(t, i),
                     end |-> NodeEnd(t, i),
                     endTagStart |-> NodeEndTagStart(t, i),
                     children |-> NodeChildren(t, i)]]]

(***************************************************************************)
(* Diagnostics.                                                            *)
(***************************************************************************)
\* the offsets of the line breaks of a text
LineBreaks(text) == {k \in 0..(Len(text) - 1) : text[k + 1] = "\n"}

\* the offset at which line `line` of the text starts
LineStart(text, line) ==
    IF line = 0 THEN 0
    ELSE (CHOOSE k \in LineBreaks(text) :
              Cardinality({j \in LineBreaks(text) : j < k}) = line - 1) + 1

\* a text of one line, longer than any offset of the trees of the model
OneLine == [k \in 1..(2 * MaxNodes) |-> "a"]

\* the document followed by SpecRange; its text is `source`
RangeDoc == "r.twig"

\* document.getText(): the text of the original document
getText(document) == IF document = RangeDoc THEN source ELSE OneLine

\* positionAt with an offset beyond the end of the text taken as it is
positionAtBeyondTheEnd(text, offset) ==
    LET line == Cardinality({k \in LineBreaks(text) : k < offset})
    IN [line |-> line, character |-> offset - LineStart(text, line)]

\* document.positionAt(offset): the offset is brought into the text, the line
\* is the number of line breaks before it, the character the distance from
\* the start of that line
positionAt(text, offset) ==
    LET o == IF offset > Len(text) THEN Len(text) ELSE IF offset < 0 THEN 0 ELSE offset
        line == Cardinality({k \in LineBreaks(text) : k < o})
    IN [line |-> line, character |-> o - LineStart(text, line)]

\* offsetToPosition(document, offset)
offsetToPosition(document, offset) == positionAt(getText(document), offset)

PositionBefore(p, q) ==
    p.line < q.line \/ (p.line = q.line /\ p.character < q.character)

\* new vscode.Range(start, end): the constructor orders its two positions
Range(startPos, endPos) ==
    IF PositionBefore(endPos, startPos)
    THEN [start |-> endPos, end |-> startPos]
    ELSE [start |-> startPos, end |-> endPos]

\* new vscode.Diagnostic(range, message, severity)
Diagnostic(range, message, severity) ==
    [range |-> range, message |-> message, severity |-> severity]

UnclosedMessage(name) == "Unclosed tag: <" \o name \o ">"

MismatchedMessage(expected, found) ==
    "Mismatched tag: expected </" \o expected \o ">, found </" \o found \o ">"

\* the diagnostic of one frame left on the stack, built with Warning severity
UnclosedDiagnosticAsWarning(document, frame) ==
    Diagnostic(Range(offsetToPosition(document, frame.start),
                     offsetToPosition(document, frame.end)),
               UnclosedMessage(frame.name), "Warning")

\* the diagnostic of one frame left on the stack (tagStack.forEach body)
UnclosedDiagnostic(document, frame) ==
    Diagnostic(Range(offsetToPosition(document, frame.start),
                     offsetToPosition(document, frame.end)),
               UnclosedMessage(frame.name), "Error")

\* the mismatch diagnostic with the node named as expected and the frame as found
MismatchedDiagnosticSwapped(document, node, lastTag, tagName) ==
    Diagnostic(Range(offsetToPosition(document, node.start),
                     offsetToPosition(document, node.endTagStart)),
               MismatchedMessage(tagName, lastTag.name), "Error")

\* the diagnostic of a closing tag whose popped frame has another name
MismatchedDiagnostic(document, node, lastTag, tagName) ==
    Diagnostic(Range(offsetToPosition(document, node.start),
                     offsetToPosition(document, node.endTagStart)),
               MismatchedMessage(lastTag.name, tagName), "Error")

(***************************************************************************)
(* One validateDocument pass as a stack machine. The pass record holds the *)
(* locals of validateDocument (htmlDocument, tagStack, diagnostics, the    *)
(* position of roots.forEach) and callStack, the activations of            *)
(* validateNode: the node, the statement group it is at and the position   *)
(* of its children.forEach.                                                *)
(***************************************************************************)
NoPass ==
    [pc |-> "idle", document |-> "", htmlDocument |-> parseHTMLDocument(<<>>),
     rootIdx |-> 1, callStack |-> <<>>, tagStack |-> <<>>, diagnostics |-> <<>>]

\* validateDocument(document) was called and has not run a statement yet
CallValidateDocument(document) == [NoPass EXCEPT !.pc = "start", !.document = document]

TopCall(p) == p.callStack[Len(p.callStack)]

CallNode(p) == p.htmlDocument.nodes[TopCall(p).node]

\* a || b on offsets: b when a is undefined or 0
OrElse(a, b) == IF a = Undefined \/ a = 0 THEN b ELSE a

\* validateDocument up to the parse with the guard of the two module variables
\* left out
startValidateUnguarded(p, service, sink, tree) ==
    [p EXCEPT !.pc = "roots", !.htmlDocument = parseHTMLDocument(tree)]

\* validateDocument up to the parse: the guard, preprocessing and parsing
\* (tree is the parser's result for the document's masked text)
startValidate(p, service, sink, tree) ==
    IF ~service \/ ~sink
    THEN [p EXCEPT !.pc = "returned"]
    ELSE [p EXCEPT !.pc = "roots", !.htmlDocument = parseHTMLDocument(tree)]

\* one iteration of htmlDocument.roots.forEach, or its end
visitRoot(p) ==
    IF p.rootIdx > Len(p.htmlDocument.roots)
    THEN [p EXCEPT !.pc = "report"]
    ELSE LET root == p.htmlDocument.roots[p.rootIdx]
         IN IF p.htmlDocument.nodes[root].tag # NoTag
            THEN [p EXCEPT !.rootIdx = @ + 1, !.pc = "node",
                           !.callStack = Append(@, [node |-> root, at |-> "push", child |-> 1])]
            ELSE [p EXCEPT !.rootIdx = @ + 1]

\* pushOpeningTag with the void test made on node.tag as written, not lowercased
pushOpeningTagRawVoidTest(p) ==
    LET node == CallNode(p)
        tagName == toLowerCase(node.tag)
        n == Len(p.callStack)
    IN [p EXCEPT !.tagStack =
                     IF node.tag \notin voidElements
                     THEN Append(@, [name |-> tagName, start |-> node.start,
                                     end |-> OrElse(node.endTagStart, node.end)])
                     ELSE @,
                 !.callStack[n].at = "children"]

\* validateNode, first part: lowercase the tag, push a frame unless void
pushOpeningTag(p) ==
    LET node == CallNode(p)
        tagName == toLowerCase(node.tag)
        n == Len(p.callStack)
    IN [p EXCEPT !.tagStack =
                     IF tagName \notin voidElements
                     THEN Append(@, [name |-> tagName, start |-> node.start,
                                     end |-> OrElse(node.endTagStart, node.end)])
                     ELSE @,
                 !.callStack[n].at = "children"]

\* visitChild that does not look at the children of a void node
visitChildNotBeneathVoid(p) ==
    LET node == CallNode(p)
        f == TopCall(p)
        n == Len(p.callStack)
    IN IF f.child > Len(node.children) \/ toLowerCase(node.tag) \in voidElements
       THEN [p EXCEPT !.callStack[n].at = "close"]
       ELSE LET child == node.children[f.child]
                q == [p EXCEPT !.callStack[n].child = @ + 1]
            IN IF p.htmlDocument.nodes[child].tag # NoTag
               THEN [q EXCEPT !.callStack =
                                 Append(@, [node |-> child, at |-> "push", child |-> 1])]
               ELSE q

\* validateNode, one iteration of node.children.forEach, or its end
visitChild(p) ==
    LET node == CallNode(p)
        f == TopCall(p)
        n == Len(p.callStack)
    IN IF f.child > Len(node.children)
       THEN [p EXCEPT !.callStack[n].at = "close"]
       ELSE LET child == node.children[f.child]
                q == [p EXCEPT !.callStack[n].child = @ + 1]
            IN IF p.htmlDocument.nodes[child].tag # NoTag
               THEN [q EXCEPT !.callStack =
                                 Append(@, [node |-> child, at |-> "push", child |-> 1])]
               ELSE q

\* checkClosingTag with the popped name compared to node.tag as written
checkClosingTagCaseSensitive(p) ==
    LET node == CallNode(p)
        tagName == toLowerCase(node.tag)
        n == Len(p.callStack)
        depth == Len(p.tagStack)
        pops == tagName \notin voidElements /\ node.endTagStart # Undefined
        hasLast == pops /\ depth > 0
        q == [p EXCEPT !.callStack = SubSeq(@, 1, n - 1),
                       !.pc = IF n = 1 THEN "roots" ELSE "node"]
    IN [q EXCEPT !.tagStack = IF hasLast THEN SubSeq(@, 1, depth - 1) ELSE @,
                 !.diagnostics =
                     IF hasLast /\ p.tagStack[depth].name # node.tag
                     THEN Append(@, MismatchedDiagnostic(p.document, node,
                                                         p.tagStack[depth], tagName))
                     ELSE @]

\* checkClosingTag popping down to the nearest frame of the node's own name
checkClosingTagSearchingDeeper(p) ==
    LET node == CallNode(p)
        tagName == toLowerCase(node.tag)
        n == Len(p.callStack)
        depth == Len(p.tagStack)
        pops == tagName \notin voidElements /\ node.endTagStart # Undefined
        hasLast == pops /\ depth > 0
        own == {k \in 1..depth : p.tagStack[k].name = tagName}
        keep == IF own = {} THEN depth - 1
                ELSE (CHOOSE k \in own : \A l \in own : l <= k) - 1
        q == [p EXCEPT !.callStack = SubSeq(@, 1, n - 1),
                       !.pc = IF n = 1 THEN "roots" ELSE "node"]
    IN [q EXCEPT !.tagStack = IF hasLast THEN SubSeq(@, 1, keep) ELSE @,
                 !.diagnostics =
                     IF hasLast /\ p.tagStack[depth].name # tagName
                     THEN Append(@, MismatchedDiagnostic(p.document, node,
                                                         p.tagStack[depth], tagName))
                     ELSE @]

\* validateNode, last part: pop for a node with end tag, compare, return
checkClosingTag(p) ==
    LET node == CallNode(p)
        tagName == toLowerCase(node.tag)
        n == Len(p.callStack)
        depth == Len(p.tagStack)
        pops == tagName \notin voidElements /\ node.endTagStart # Undefined
        hasLast == pops /\ depth > 0
        q == [p EXCEPT !.callStack = SubSeq(@, 1, n - 1),
                       !.pc = IF n = 1 THEN "roots" ELSE "node"]
    IN [q EXCEPT !.tagStack = IF hasLast THEN SubSeq(@, 1, depth - 1) ELSE @,
                 !.diagnostics =
                     IF hasLast /\ p.tagStack[depth].name # tagName
                     THEN Append(@, MismatchedDiagnostic(p.document, node,
                                                         p.tagStack[depth], tagName))
                     ELSE @]

\* the report taking the frames from the top of the stack down
reportUnclosedTopDown(p) ==
    [p EXCEPT !.pc = "set",
              !.diagnostics =
                  @ \o [i \in 1..Len(p.tagStack) |->
                            UnclosedDiagnostic(p.document,
                                               p.tagStack[Len(p.tagStack) + 1 - i])]]

\* tagStack.forEach after the traversal: one diagnostic per frame left
reportUnclosed(p) ==
    [p EXCEPT !.pc = "set",
              !.diagnostics =
                  @ \o [i \in 1..Len(p.tagStack) |->
                            UnclosedDiagnostic(p.document, p.tagStack[i])]]

\* a sink that adds the list to the uri's entry instead of replacing the entry
DiagnosticCollectionAdd(coll, uri, diagnostics) ==
    [u \in DOMAIN coll \cup {uri} |->
        IF u # uri THEN coll[u]
        ELSE IF uri \in DOMAIN coll THEN coll[uri] \o diagnostics ELSE diagnostics]

\* diagnosticCollection.set(uri, diagnostics): the list replaces the uri's entry
DiagnosticCollectionSet(coll, uri, diagnostics) ==
    [u \in DOMAIN coll \cup {uri} |-> IF u = uri THEN diagnostics ELSE coll[u]]

\* the statement group the pass is at
StepPass(p) ==
    CASE p.pc = "roots" -> visitRoot(p)
      [] p.pc = "node" /\ TopCall(p).at = "push" -> pushOpeningTag(p)
      [] p.pc = "node" /\ TopCall(p).at = "children" -> visitChild(p)
      [] p.pc = "node" /\ TopCall(p).at = "close" -> checkClosingTag(p)
      [] p.pc = "report" -> reportUnclosed(p)
      [] OTHER -> p

\* the pass run from its call to the point where it returns or calls the sink
RECURSIVE RunPass(_)
RunPass(p) == IF p.pc \in {"set", "returned"} THEN p ELSE RunPass(StepPass(p))

(***************************************************************************)
(* Documents and the extension's state.                                    *)
(***************************************************************************)
Docs == {"a.twig", "b.twig", "c.html"}

languageId(document) == IF document = "c.html" THEN "html" ELSE "twig"

\* no active text editor: vscode.window.activeTextEditor is undefined
NoEditor == ""

\* the texts documents take in the event model, by their parsed trees:
\* <div></div>, and <div><span></div> (span without end tag)
EventTrees ==
    {<<[tag |-> "div", depth |-> 0, closed |-> TRUE]>>,
     <<[tag |-> "div", depth |-> 0, closed |-> TRUE],
       [tag |-> "span", depth |-> 1, closed |-> FALSE]>>}

\* the text every document has when the extension is loaded: <div><span></div>
InitialTree ==
    <<[tag |-> "div", depth |-> 0, closed |-> TRUE],
      [tag |-> "span", depth |-> 1, closed |-> FALSE]>>

\* the delay passed to setTimeout
DebounceMs == 300

\* validateDocument(document) run to completion: the locals after the pass
PassOf(document, service, sink, tree) ==
    RunPass(startValidate(CallValidateDocument(document), service, sink, tree))

\* context.subscriptions has been disposed: the collection created by
\* initializeDiagnostics is disposed and the listeners are released
Disposed == diagnosticCollection /\ ~subscribed

\* validateDocument(document) as one step of a handler; service and sink are the
\* values of the module variables at the call
validateDocument(document, service, sink, trigger, timer) ==
    LET p == PassOf(document, service, sink, content[document])
    IN IF p.pc = "returned"
       THEN UNCHANGED <<collection, setCalls, passLog>>
       ELSE /\ collection' = IF Disposed
                             THEN collection   \* set on a disposed collection throws
                             ELSE DiagnosticCollectionSet(collection, document, p.diagnostics)
            /\ setCalls' = setCalls + 1
            /\ passLog' = Append(passLog, [trigger |-> trigger, document |-> document,
                                           timer |-> timer])

\* clearTimeout left out: the pending timer stays in the table
clearTimeoutOmitted(table, handle) == table

\* clearTimeout(handle): the timer of that handle, if still pending, is dropped
clearTimeout(table, handle) == {t \in table : t.id # handle}

\* setTimeout(callback, delay) for the callback validating `document`
setTimeout(table, handle, document, delay) ==
    table \cup {[id |-> handle, document |-> document, due |-> now + delay]}

\* the handle setTimeout returns: handles are never reused
NextHandle == Len(changeLog) + 1

\* no hover is being provided
NoHoverCall == [word |-> "", pc |-> "none", service |-> <<>>, asked |-> FALSE,
                result |-> <<>>]

\* neither preprocessTwig nor provideCompletions is being followed
NoTextCall ==
    /\ source = <<>>
    /\ processed = <<>>
    /\ position = [line |-> 0, character |-> 0]
    /\ completions = <<>>
    /\ textPc = "none"

\* the settings as activate tests them: autocomplete !== false, hover === true,
\* formatting === true
Settings == [autocomplete : BOOLEAN, hover : BOOLEAN, formatting : BOOLEAN]

FeaturesOn == [autocomplete |-> TRUE, hover |-> TRUE, formatting |-> TRUE]

\* what activate registers past its first test: the completion provider, and in
\* registerDocType the hover provider and the two formatting providers
Registered(cfg) ==
    (IF cfg.autocomplete THEN {"completion"} ELSE {})
    \cup (IF cfg.hover THEN {"hover"} ELSE {})
    \cup (IF cfg.formatting THEN {"formatting", "rangeFormatting"} ELSE {})

InitExtension ==
    /\ htmlLanguageService = FALSE
    /\ diagnosticCollection = FALSE
    /\ collection = <<>>
    /\ setCalls = 0
    /\ pass = NoPass
    /\ activation = "loaded"
    /\ subscribed = FALSE
    /\ timeout = Undefined
    /\ timers = {}
    /\ now = 0
    /\ changeLog = <<>>
    /\ passLog = <<>>
    /\ opens = 0
    /\ entered = <<>>
    /\ hoverCall = NoHoverCall
    /\ providers = {}

Init ==
    /\ InitExtension
    /\ config = FeaturesOn
    /\ NoTextCall
    /\ content = [d \in Docs |-> InitialTree]
    /\ activeTextEditor \in Docs \cup {NoEditor}
    /\ validation \in BOOLEAN

registerProviders ==
    providers' = IF activeTextEditor # NoEditor THEN Registered(config) ELSE providers

\* initializeDiagnostics(context), called from activate
initializeDiagnostics ==
    /\ htmlLanguageService' = TRUE
    /\ diagnosticCollection' = TRUE
    /\ IF activeTextEditor # NoEditor
       THEN validateDocument(activeTextEditor, TRUE, TRUE, "activate", 0)
       ELSE UNCHANGED <<collection, setCalls, passLog>>
    /\ subscribed' = TRUE

\* activate(context) with the test of config.validation left out
ActivateWithoutValidationTest ==
    /\ activation = "loaded"
    /\ activation' = "activated"
    /\ IF activeTextEditor # NoEditor
       THEN initializeDiagnostics
       ELSE UNCHANGED <<htmlLanguageService, diagnosticCollection, collection, setCalls,
                        passLog, subscribed>>
    /\ UNCHANGED <<content, pass, timeout, timers, now, changeLog, opens,
                   activeTextEditor, validation, textVars, entered, config>>
    /\ registerProviders

\* activate(context) without the return for a missing active editor
ActivateWithoutEditorTest ==
    /\ activation = "loaded"
    /\ activation' = "activated"
    /\ IF validation
       THEN initializeDiagnostics
       ELSE UNCHANGED <<htmlLanguageService, diagnosticCollection, collection, setCalls,
                        passLog, subscribed>>
    /\ UNCHANGED <<content, pass, timeout, timers, now, changeLog, opens,
                   activeTextEditor, validation, textVars, entered, config>>
    /\ providers' = Registered(config)

\* activate(context)
Activate ==
    /\ activation = "loaded"
    /\ activation' = "activated"
    /\ IF activeTextEditor # NoEditor /\ validation
       THEN initializeDiagnostics
       ELSE UNCHANGED <<htmlLanguageService, diagnosticCollection, collection, setCalls,
                        passLog, subscribed>>
    /\ UNCHANGED <<content, pass, timeout, timers, now, changeLog, opens,
                   activeTextEditor, validation, textVars, entered, config>>
    /\ registerProviders

\* the listener of onDidChangeTextDocument with the test of languageId left out
ChangeTextDocumentAnyLanguage(document, tree) ==
    /\ activation = "activated"
    /\ Len(changeLog) < MaxChanges
    /\ content' = [content EXCEPT ![document] = tree]
    /\ IF subscribed
       THEN /\ timers' = setTimeout(clearTimeout(timers, timeout), NextHandle,
                                    document, DebounceMs)
            /\ timeout' = NextHandle
       ELSE UNCHANGED <<timers, timeout>>
    /\ changeLog' = Append(changeLog,
                           [document |-> document, time |-> now,
                            timer |-> IF subscribed THEN NextHandle ELSE 0])
    /\ UNCHANGED <<htmlLanguageService, diagnosticCollection, collection, setCalls, pass,
                   activation, subscribed, now, passLog, opens, activeTextEditor,
                   validation, textVars, entered, registrations>>

\* the listener of onDidChangeTextDocument, for an edit that leaves `tree`
ChangeTextDocument(document, tree) ==
    /\ activation = "activated"
    /\ Len(changeLog) < MaxChanges
    /\ content' = [content EXCEPT ![document] = tree]
    /\ IF subscribed /\ languageId(document) = "twig"
       THEN /\ timers' = setTimeout(clearTimeout(timers, timeout), NextHandle,
                                    document, DebounceMs)
            /\ timeout' = NextHandle
       ELSE UNCHANGED <<timers, timeout>>
    /\ changeLog' = Append(changeLog,
                           [document |-> document, time |-> now,
                            timer |-> IF subscribed /\ languageId(document) = "twig"
                                      THEN NextHandle ELSE 0])
    /\ UNCHANGED <<htmlLanguageService, diagnosticCollection, collection, setCalls, pass,
                   activation, subscribed, now, passLog, opens, activeTextEditor,
                   validation, textVars, entered, registrations>>

\* the callback given to setTimeout, run by the runtime once the delay has passed
TimerFires(t) ==
    /\ t \in timers
    /\ now >= t.due
    /\ timers' = timers \ {t}
    /\ validateDocument(t.document, htmlLanguageService, diagnosticCollection,
                        "timer", t.id)
    /\ UNCHANGED <<htmlLanguageService, diagnosticCollection, content, pass, activation,
                   subscribed, timeout, now, changeLog, opens, activeTextEditor,
                   validation, textVars, entered, registrations>>

\* the listener of onDidOpenTextDocument
OpenTextDocument(document) ==
    /\ activation = "activated"
    /\ opens < MaxOpens
    /\ opens' = opens + 1
    /\ IF subscribed /\ languageId(document) = "twig"
       THEN validateDocument(document, htmlLanguageService, diagnosticCollection,
                             "open", 0)
       ELSE UNCHANGED <<collection, setCalls, passLog>>
    /\ UNCHANGED <<htmlLanguageService, diagnosticCollection, content, pass, activation,
                   subscribed, timeout, timers, now, changeLog, activeTextEditor,
                   validation, textVars, entered, registrations>>

\* time passes
Tick ==
    /\ activation = "activated"
    /\ now + TickMs <= MaxTime
    /\ now' = now + TickMs
    /\ UNCHANGED <<htmlLanguageService, diagnosticCollection, collection, setCalls,
                   content, pass, activation, subscribed, timeout, timers, changeLog,
                   passLog, opens, activeTextEditor, validation, textVars, entered, registrations>>

Next ==
    \/ Activate
    \/ \E d \in Docs, tree \in EventTrees : ChangeTextDocument(d, tree)
    \/ \E t \in timers : TimerFires(t)
    \/ \E d \in Docs : OpenTextDocument(d)
    \/ Tick

Spec == Init /\ [][Next]_vars

(***************************************************************************)
(* SpecActivate: the event handlers under every combination of the         *)
(* settings, with a.twig in the active editor or with no active editor.    *)
(***************************************************************************)
InitActivate ==
    /\ InitExtension
    /\ NoTextCall
    /\ content = [d \in Docs |-> InitialTree]
    /\ activeTextEditor \in {"a.twig", NoEditor}
    /\ validation \in BOOLEAN
    /\ config \in Settings

NextActivate ==
    \/ Activate
    \/ \E d \in Docs, tree \in EventTrees : ChangeTextDocument(d, tree)
    \/ \E t \in timers : TimerFires(t)
    \/ \E d \in Docs : OpenTextDocument(d)
    \/ Tick

SpecActivate == InitActivate /\ [][NextActivate]_vars

(***************************************************************************)
(* SpecDispose: the event handlers, and the editor disposing of            *)
(* context.subscriptions, which hold the diagnostic collection and the two *)
(* listeners. The handle of setTimeout is a local of initializeDiagnostics *)
(* and is not among the subscriptions.                                     *)
(***************************************************************************)
Dispose ==
    /\ activation = "activated"
    /\ subscribed
    /\ subscribed' = FALSE
    /\ collection' = <<>>
    /\ UNCHANGED <<htmlLanguageService, diagnosticCollection, setCalls, content, pass,
                   activation, timeout, timers, now, changeLog, passLog, opens,
                   activeTextEditor, validation, textVars, entered, registrations>>

NextDispose ==
    \/ Activate
    \/ \E d \in Docs, tree \in EventTrees : ChangeTextDocument(d, tree)
    \/ \E t \in timers : TimerFires(t)
    \/ \E d \in Docs : OpenTextDocument(d)
    \/ Tick
    \/ Dispose

SpecDispose == Init /\ [][NextDispose]_vars

(***************************************************************************)
(* SpecWalk: validateDocument("a.twig") has been called, with the module's *)
(* two variables set as initializeDiagnostics leaves them or still unset;  *)
(* the document's text parses to any tree of at most MaxNodes nodes. Each  *)
(* action is one statement group of the pass.                              *)
(***************************************************************************)
WalkDoc == "a.twig"

InitWalk ==
    /\ htmlLanguageService \in BOOLEAN
    /\ diagnosticCollection \in BOOLEAN
    /\ collection = <<>>
    /\ setCalls = 0
    /\ \E n \in 0..MaxNodes :
           \E t \in TreesOfSize(n) : content = [d \in Docs |-> IF d = WalkDoc THEN t ELSE <<>>]
    /\ pass = CallValidateDocument(WalkDoc)
    /\ activation = IF htmlLanguageService /\ diagnosticCollection
                    THEN "activated" ELSE "loaded"
    /\ subscribed = (htmlLanguageService /\ diagnosticCollection)
    /\ timeout = Undefined
    /\ timers = {}
    /\ now = 0
    /\ changeLog = <<>>
    /\ passLog = <<>>
    /\ opens = 1
    /\ activeTextEditor = WalkDoc
    /\ validation = TRUE
    /\ NoTextCall
    /\ entered = <<>>
    /\ hoverCall = NoHoverCall
    /\ config = FeaturesOn
    /\ providers = Registered(FeaturesOn)

\* what a step of the pass leaves alone; a step that calls validateNode is
\* noted in entered
WalkFrame ==
    /\ UNCHANGED <<htmlLanguageService, diagnosticCollection, content, activation,
                   subscribed, timeout, timers, now, changeLog, opens, activeTextEditor,
                   validation, textVars, registrations>>
    /\ entered' = IF Len(pass'.callStack) > Len(pass.callStack)
                  THEN Append(entered, TopCall(pass').node)
                  ELSE entered

StartValidate ==
    /\ pass.pc = "start"
    /\ pass' = startValidate(pass, htmlLanguageService, diagnosticCollection,
                             content[pass.document])
    /\ passLog' = IF pass'.pc = "returned" THEN passLog
                  ELSE Append(passLog, [trigger |-> "open", document |-> pass.document,
                                        timer |-> 0])
    /\ UNCHANGED <<collection, setCalls>>
    /\ WalkFrame

VisitRoot ==
    /\ pass.pc = "roots"
    /\ pass' = visitRoot(pass)
    /\ UNCHANGED <<collection, setCalls, passLog>>
    /\ WalkFrame

PushOpeningTag ==
    /\ pass.pc = "node" /\ TopCall(pass).at = "push"
    /\ pass' = pushOpeningTag(pass)
    /\ UNCHANGED <<collection, setCalls, passLog>>
    /\ WalkFrame

VisitChild ==
    /\ pass.pc = "node" /\ TopCall(pass).at = "children"
    /\ pass' = visitChild(pass)
    /\ UNCHANGED <<collection, setCalls, passLog>>
    /\ WalkFrame

CheckClosingTag ==
    /\ pass.pc = "node" /\ TopCall(pass).at = "close"
    /\ pass' = checkClosingTag(pass)
    /\ UNCHANGED <<collection, setCalls, passLog>>
    /\ WalkFrame

ReportUnclosed ==
    /\ pass.pc = "report"
    /\ pass' = reportUnclosed(pass)
    /\ UNCHANGED <<collection, setCalls, passLog>>
    /\ WalkFrame

SetDiagnostics ==
    /\ pass.pc = "set"
    /\ collection' = DiagnosticCollectionSet(collection, pass.document, pass.diagnostics)
    /\ setCalls' = setCalls + 1
    /\ pass' = [pass EXCEPT !.pc = "done"]
    /\ UNCHANGED passLog
    /\ WalkFrame

NextWalk ==
    \/ StartValidate
    \/ VisitRoot
    \/ PushOpeningTag
    \/ VisitChild
    \/ CheckClosingTag
    \/ ReportUnclosed
    \/ SetDiagnostics

SpecWalk == InitWalk /\ [][NextWalk]_vars

(***************************************************************************)
(* Texts. A text is a sequence of characters (strings of length one);      *)
(* offsets count from 0 as in JavaScript.                                  *)
(***************************************************************************)
RECURSIVE Flatten(_)
\* the text made of the pieces of ps, in order
Flatten(ps) == IF ps = <<>> THEN <<>> ELSE Head(ps) \o Flatten(Tail(ps))

\* s.substring(from, to)
substring(s, from, to) == SubSeq(s, from + 1, to)

\* pat occurs in s at offset i
OccursAt(s, pat, i) ==
    /\ i >= 0 /\ i + Len(pat) <= Len(s)
    /\ \A k \in 1..Len(pat) : s[i + k] = pat[k]

\* s.indexOf(pat, from): the first offset >= from where pat occurs, or -1
indexOf(s, pat, from) ==
    LET at == {i \in from..(Len(s) - Len(pat)) : OccursAt(s, pat, i)}
    IN IF at = {} THEN -1 ELSE CHOOSE i \in at : \A j \in at : i <= j

\* s.lastIndexOf(pat): the last offset where pat occurs, or -1
lastIndexOf(s, pat) ==
    LET at == {i \in 0..(Len(s) - Len(pat)) : OccursAt(s, pat, i)}
    IN IF at = {} THEN -1 ELSE CHOOSE i \in at : \A j \in at : i >= j

\* (match.match(/\n/g) || []).length
newlines(s) == Cardinality({k \in DOMAIN s : s[k] = "\n"})

BlockOpen == <<"{", "%">>
BlockClose == <<"%", "}">>
ExprOpen == <<"{", "{">>
ExprClose == <<"}", "}">>

\* the characters of "<!-- TWIG_BLOCK "
BlockPrefix ==
    <<"<", "!", "-", "-", " ", "T", "W", "I", "G", "_", "B", "L", "O", "C", "K", " ">>

\* the characters of "<!-- TWIG_EXPR "
ExprPrefix ==
    <<"<", "!", "-", "-", " ", "T", "W", "I", "G", "_", "E", "X", "P", "R", " ">>

\* the characters of " -->"
CommentEnd == <<" ", "-", "-", ">">>

\* the template literal `<!-- TWIG_... ${newlines} -->`; the texts of the model
\* hold fewer than ten newlines, so the number is one character
Placeholder(prefix, n) == prefix \o <<ToString(n)>> \o CommentEnd

\* the last offset >= from where pat occurs in s, or -1
lastIndexOfFrom(s, pat, from) ==
    LET at == {i \in from..(Len(s) - Len(pat)) : OccursAt(s, pat, i)}
    IN IF at = {} THEN -1 ELSE CHOOSE i \in at : \A j \in at : i >= j

\* replaceRegions with a greedy pattern: a match runs to the last closing
\* delimiter of the text
replaceRegionsGreedy(s, from, open, close, prefix) ==
    LET o == indexOf(s, open, from)
        c == IF o = -1 THEN -1 ELSE lastIndexOfFrom(s, close, o + Len(open))
    IN IF o = -1 \/ c = -1
       THEN substring(s, from, Len(s))
       ELSE substring(s, from, o)
            \o Placeholder(prefix, newlines(substring(s, o, c + Len(close))))
            \o substring(s, c + Len(close), Len(s))

\* replaceRegions with a pattern without the g flag: the first match only
replaceRegionsFirstOnly(s, from, open, close, prefix) ==
    LET o == indexOf(s, open, from)
        c == IF o = -1 THEN -1 ELSE indexOf(s, close, o + Len(open))
    IN IF o = -1 \/ c = -1
       THEN substring(s, from, Len(s))
       ELSE substring(s, from, o)
            \o Placeholder(prefix, newlines(substring(s, o, c + Len(close))))
            \o substring(s, c + Len(close), Len(s))

RECURSIVE replaceRegionsToTheEnd(_, _, _, _, _)
\* replaceRegions with the end of the text accepted as a closing delimiter
replaceRegionsToTheEnd(s, from, open, close, prefix) ==
    LET o == indexOf(s, open, from)
        c == IF o = -1 THEN -1 ELSE indexOf(s, close, o + Len(open))
    IN IF o = -1
       THEN substring(s, from, Len(s))
       ELSE IF c = -1
       THEN substring(s, from, o) \o Placeholder(prefix, newlines(substring(s, o, Len(s))))
       ELSE substring(s, from, o)
            \o Placeholder(prefix, newlines(substring(s, o, c + Len(close))))
            \o replaceRegionsToTheEnd(s, c + Len(close), open, close, prefix)

RECURSIVE replaceRegions(_, _, _, _, _)
\* s.replace(/open[\s\S]*?close/g, match => placeholder), from offset `from` on:
\* the leftmost opening delimiter that has a closing delimiter after it starts
\* a match, which ends with the first such closing delimiter
replaceRegions(s, from, open, close, prefix) ==
    LET o == indexOf(s, open, from)
        c == IF o = -1 THEN -1 ELSE indexOf(s, close, o + Len(open))
    IN IF o = -1 \/ c = -1
       THEN substring(s, from, Len(s))
       ELSE substring(s, from, o)
            \o Placeholder(prefix, newlines(substring(s, o, c + Len(close))))
            \o replaceRegions(s, c + Len(close), open, close, prefix)

\* the first statement of preprocessTwig
replaceBlocks(s) == replaceRegions(s, 0, BlockOpen, BlockClose, BlockPrefix)

\* the second statement of preprocessTwig
replaceExpressions(s) == replaceRegions(s, 0, ExprOpen, ExprClose, ExprPrefix)

preprocessTwig(s) == replaceExpressions(replaceBlocks(s))

(***************************************************************************)
(* SpecMask: preprocessTwig(source) for every text of at most MaxPieces    *)
(* pieces, one statement per action.                                       *)
(***************************************************************************)
MaskPieces == {BlockOpen, BlockClose, ExprOpen, ExprClose, <<"\n">>, <<"a">>}

\* the variables of the diagnostics and of the event handlers, at rest
ExtensionAtRest ==
    /\ UNCHANGED <<htmlLanguageService, diagnosticCollection, collection, setCalls,
                   content, pass, activation, subscribed, timeout, timers, now,
                   changeLog, passLog, opens, activeTextEditor, validation, entered, registrations>>

InitMask ==
    /\ InitExtension
    /\ config = FeaturesOn
    /\ content = [d \in Docs |-> <<>>]
    /\ activeTextEditor = NoEditor
    /\ validation = TRUE
    /\ \E n \in 0..MaxPieces : \E ps \in [1..n -> MaskPieces] : source = Flatten(ps)
    /\ processed = <<>>
    /\ position = [line |-> 0, character |-> 0]
    /\ completions = <<>>
    /\ textPc = "blocks"

\* let processed = source.replace(/\{%[\s\S]*?%\}/g, ...)
ReplaceBlocks ==
    /\ textPc = "blocks"
    /\ processed' = replaceBlocks(source)
    /\ textPc' = "expressions"
    /\ UNCHANGED <<source, position, completions, hoverCall>>
    /\ ExtensionAtRest

\* processed = processed.replace(/\{\{[\s\S]*?\}\}/g, ...); return processed
ReplaceExpressions ==
    /\ textPc = "expressions"
    /\ processed' = replaceExpressions(processed)
    /\ textPc' = "returned"
    /\ UNCHANGED <<source, position, completions, hoverCall>>
    /\ ExtensionAtRest

NextMask ==
    \/ ReplaceBlocks
    \/ ReplaceExpressions

SpecMask == InitMask /\ [][NextMask]_vars

(***************************************************************************)
(* Completions. A document is its text; a position is a line and a         *)
(* character, both counted from 0.                                         *)
(***************************************************************************)
\* the offset at which line `line` of the text ends, its line break excluded
LineEnd(text, line) ==
    IF line = Cardinality(LineBreaks(text)) THEN Len(text)
    ELSE CHOOSE k \in LineBreaks(text) :
             Cardinality({j \in LineBreaks(text) : j < k}) = line

\* document.lineAt(line).text
lineAt(text, line) == substring(text, LineStart(text, line), LineEnd(text, line))

\* document.offsetAt(position)
offsetAt(text, pos) ==
    LET width == LineEnd(text, pos.line) - LineStart(text, pos.line)
    IN LineStart(text, pos.line) + (IF pos.character > width THEN width ELSE pos.character)

\* the positions of a document
Positions(text) ==
    {pos \in [line : 0..Cardinality(LineBreaks(text)), character : 0..Len(text)] :
        pos.character <= LineEnd(text, pos.line) - LineStart(text, pos.line)}

getTextBeforeCursor(text, pos) == substring(lineAt(text, pos.line), 0, pos.character)

getTextAfterCursor(text, pos) ==
    LET line == lineAt(text, pos.line) IN substring(line, pos.character, Len(line))

\* s.includes(pat)
includes(s, pat) == indexOf(s, pat, 0) # -1

\* s.startsWith(pat)
startsWith(s, pat) == OccursAt(s, pat, 0)

WhiteSpace == {" ", "\n"}

\* s.trim()
trim(s) ==
    LET inked == {k \in DOMAIN s : s[k] \notin WhiteSpace}
    IN IF inked = {} THEN <<>>
       ELSE SubSeq(s, CHOOSE k \in inked : \A j \in inked : k <= j,
                      CHOOSE k \in inked : \A j \in inked : k >= j)

\* isInsideTwigBlock with the closing delimiter after the cursor not looked for
isInsideTwigBlockOpenOnly(text, pos) ==
    LET offset == offsetAt(text, pos)
        beforeText == substring(text, 0, offset)
        lastOpen == lastIndexOf(beforeText, BlockOpen)
        lastClose == lastIndexOf(beforeText, BlockClose)
    IN lastOpen # -1 /\ (lastClose = -1 \/ lastOpen > lastClose)

isInsideTwigBlock(text, pos) ==
    LET offset == offsetAt(text, pos)
        beforeText == substring(text, 0, offset)
        afterText == substring(text, offset, Len(text))
        lastOpen == lastIndexOf(beforeText, BlockOpen)
        lastClose == lastIndexOf(beforeText, BlockClose)
    IN IF lastOpen # -1 /\ (lastClose = -1 \/ lastOpen > lastClose)
       THEN indexOf(afterText, BlockClose, 0) # -1
       ELSE FALSE

isAfterPipe(text, pos) ==
    LET beforeText == substring(text, 0, offsetAt(text, pos))
        lastOpen == lastIndexOf(beforeText, ExprOpen)
        lastClose == lastIndexOf(beforeText, ExprClose)
    IN IF lastOpen # -1 /\ (lastClose = -1 \/ lastOpen > lastClose)
       THEN includes(substring(beforeText, lastOpen, Len(beforeText)), <<"|">>)
       ELSE FALSE

isInsideTag(text, pos) ==
    LET textBefore == getTextBeforeCursor(text, pos)
        textAfter == getTextAfterCursor(text, pos)
        lastOpen == lastIndexOf(textBefore, <<"<">>)
        lastClose == lastIndexOf(textBefore, <<">">>)
    IN IF lastOpen # -1 /\ (lastClose = -1 \/ lastOpen > lastClose)
       THEN includes(textAfter, <<">">>)
       ELSE FALSE

isInAttributePosition(text, pos) ==
    IF ~isInsideTag(text, pos) THEN FALSE
    ELSE LET textAfter == getTextAfterCursor(text, pos)
         IN /\ Len(trim(getTextBeforeCursor(text, pos))) > 0
            /\ \/ startsWith(textAfter, <<"=">>)
               \/ startsWith(textAfter, <<" ">>)
               \/ startsWith(textAfter, <<">">>)

\* provideCompletions(document, position): the categories of the items pushed,
\* in the order of the pushes (the items of a category are fixed lists read
\* from the JSON tables, or whatever the language service proposes)
provideCompletions(text, pos, service) ==
    (IF service THEN <<"html">> ELSE <<>>)
    \o (IF isInAttributePosition(text, pos) THEN <<"alpine">> ELSE <<>>)
    \o (IF isInsideTwigBlock(text, pos) THEN <<"twigTags">> ELSE <<>>)
    \o (IF isAfterPipe(text, pos) THEN <<"twigFilters">> ELSE <<>>)

(***************************************************************************)
(* SpecComplete: the registered provider is called at a position of a      *)
(* document of at most MaxCursorPieces pieces. initializeCompletions has    *)
(* stored the language service before it registered the provider.          *)
(***************************************************************************)
CursorPieces ==
    {BlockOpen, BlockClose, ExprOpen, ExprClose, <<"|">>, <<"a">>, <<"\n">>}

InitComplete ==
    /\ htmlLanguageService = TRUE
    /\ diagnosticCollection = FALSE
    /\ collection = <<>>
    /\ setCalls = 0
    /\ content = [d \in Docs |-> <<>>]
    /\ pass = NoPass
    /\ activation = "activated"
    /\ subscribed = FALSE
    /\ timeout = Undefined
    /\ timers = {}
    /\ now = 0
    /\ changeLog = <<>>
    /\ passLog = <<>>
    /\ opens = 0
    /\ activeTextEditor = WalkDoc
    /\ validation = FALSE
    /\ \E n \in 0..MaxCursorPieces :
           \E ps \in [1..n -> CursorPieces] : source = Flatten(ps)
    /\ processed = <<>>
    /\ position \in Positions(source)
    /\ completions = <<>>
    /\ textPc = "called"
    /\ entered = <<>>
    /\ hoverCall = NoHoverCall
    /\ config = FeaturesOn
    /\ providers = Registered(FeaturesOn)

ProvideCompletions ==
    /\ textPc = "called"
    /\ completions' = provideCompletions(source, position, htmlLanguageService)
    /\ textPc' = "returned"
    /\ UNCHANGED <<source, processed, position, hoverCall>>
    /\ ExtensionAtRest

NextComplete == ProvideCompletions

SpecComplete == InitComplete /\ [][NextComplete]_vars

(***************************************************************************)
(* SpecRange: validateDocument for a document whose text has line breaks   *)
(* and Twig regions. The parser's result for the masked text is one        *)
(* unclosed div, or a closed div around an unclosed span, at any offsets   *)
(* within the masked text.                                                 *)
(***************************************************************************)
RangePieces ==
    {<<"a">>, <<"\n">>, BlockOpen \o BlockClose, ExprOpen \o <<"\n">> \o ExprClose}

\* <div ...> from a to the end b of the masked part seen, without end tag
UnclosedDivAt(a, b) ==
    [roots |-> <<1>>,
     nodes |-> <<[tag |-> "div", start |-> a, end |-> b, endTagStart |-> Undefined,
                  children |-> <<>>]>>]

\* <div> at a, <span> at c running to the </div> at b
DivAroundSpanAt(a, c, b) ==
    [roots |-> <<1>>,
     nodes |-> <<[tag |-> "div", start |-> a, end |-> b + 1, endTagStart |-> b,
                  children |-> <<2>>],
                 [tag |-> "span", start |-> c, end |-> b, endTagStart |-> Undefined,
                  children |-> <<>>]>>]

InitRange ==
    /\ htmlLanguageService = TRUE
    /\ diagnosticCollection = TRUE
    /\ collection = <<>>
    /\ setCalls = 0
    /\ content = [d \in Docs |-> <<>>]
    /\ pass = CallValidateDocument(RangeDoc)
    /\ activation = "activated"
    /\ subscribed = TRUE
    /\ timeout = Undefined
    /\ timers = {}
    /\ now = 0
    /\ changeLog = <<>>
    /\ passLog = <<>>
    /\ opens = 1
    /\ activeTextEditor = RangeDoc
    /\ validation = TRUE
    /\ \E n \in 0..MaxRangePieces :
           \E ps \in [1..n -> RangePieces] : source = Flatten(ps)
    /\ processed = <<>>
    /\ position = [line |-> 0, character |-> 0]
    /\ completions = <<>>
    /\ textPc = "none"
    /\ entered = <<>>
    /\ hoverCall = NoHoverCall
    /\ config = FeaturesOn
    /\ providers = Registered(FeaturesOn)

\* validateDocument up to the parse: getText, preprocessTwig, parseHTMLDocument
ParseMasked ==
    /\ pass.pc = "start"
    /\ processed' = preprocessTwig(getText(pass.document))
    /\ \E a, c, b \in 0..MaxOffset :
           /\ a < c /\ c <= b /\ b <= Len(processed')
           /\ \E htmlDocument \in {UnclosedDivAt(a, b), DivAroundSpanAt(a, c, b)} :
                  pass' = [pass EXCEPT !.pc = "roots", !.htmlDocument = htmlDocument]
    /\ passLog' = Append(passLog, [trigger |-> "open", document |-> pass.document,
                                   timer |-> 0])
    /\ UNCHANGED <<htmlLanguageService, diagnosticCollection, collection, setCalls,
                   content, activation, subscribed, timeout, timers, now, changeLog,
                   opens, activeTextEditor, validation, source, position, completions,
                   textPc, hoverCall, entered, registrations>>

NextRange ==
    \/ ParseMasked
    \/ VisitRoot
    \/ PushOpeningTag
    \/ VisitChild
    \/ CheckClosingTag
    \/ ReportUnclosed
    \/ SetDiagnostics

SpecRange == InitRange /\ [][NextRange]_vars

(***************************************************************************)
(* provideHover(document, position) of the hover provider. The tables hold *)
(* for every entry its prefix and hover fields (a missing field is the     *)
(* empty tuple) and, for its description and example, a name of the entry. *)
(***************************************************************************)
\* hover/filters.json, its entries in the order of the file
snippetsArr ==
  <<
    [prefix |-> <<>>, hover |-> <<>>, description |-> "filters/abs"],
    [prefix |-> <<"batch">>, hover |-> <<>>, description |-> "filters/batch"],
    [prefix |-> <<>>, hover |-> <<>>, description |-> "filters/capitalize"],
    [prefix |-> <<"convert_encoding">>, hover |-> <<>>, description |-> "filters/convert_encoding"],
    [prefix |-> <<"date">>, hover |-> <<>>, description |-> "filters/date"],
    [prefix |-> <<"date_modify">>, hover |-> <<>>, description |-> "filters/date_modify"],
    [prefix |-> <<"default">>, hover |-> <<>>, description |-> "filters/default"],
    [prefix |-> <<>>, hover |-> <<>>, description |-> "filters/escape"],
    [prefix |-> <<>>, hover |-> <<>>, description |-> "filters/first"],
    [prefix |-> <<"format">>, hover |-> <<>>, description |-> "filters/format"],
    [prefix |-> <<"join">>, hover |-> <<>>, description |-> "filters/join"],
    [prefix |-> <<"json_encode">>, hover |-> <<>>, description |-> "filters/json_encode"],
    [prefix |-> <<>>, hover |-> <<>>, description |-> "filters/keys"],
    [prefix |-> <<>>, hover |-> <<>>, description |-> "filters/last"],
    [prefix |-> <<>>, hover |-> <<>>, description |-> "filters/length"],
    [prefix |-> <<>>, hover |-> <<>>, description |-> "filters/lower"],
    [prefix |-> <<"merge">>, hover |-> <<>>, description |-> "filters/merge"],
    [prefix |-> <<>>, hover |-> <<>>, description |-> "filters/nl2br"],
    [prefix |-> <<"number_format">>, hover |-> <<>>, description |-> "filters/number_format"],
    [prefix |-> <<>>, hover |-> <<>>, description |-> "filters/raw"],
    [prefix |-> <<"replace">>, hover |-> <<>>, description |-> "filters/replace"],
    [prefix |-> <<>>, hover |-> <<>>, description |-> "filters/reverse"],
    [prefix |-> <<"round">>, hover |-> <<>>, description |-> "filters/round"],
    [prefix |-> <<"slice">>, hover |-> <<>>, description |-> "filters/slice"],
    [prefix |-> <<"slice [] notation">>, hover |-> <<>>, description |-> "filters/slice [] notation"],
    [prefix |-> <<>>, hover |-> <<>>, description |-> "filters/sort"],
    [prefix |-> <<"split">>, hover |-> <<>>, description |-> "filters/split"],
    [prefix |-> <<>>, hover |-> <<>>, description |-> "filters/striptags"],
    [prefix |-> <<>>, hover |-> <<>>, description |-> "filters/title"],
    [prefix |-> <<>>, hover |-> <<>>, description |-> "filters/trim"],
    [prefix |-> <<"trim()">>, hover |-> <<>>, description |-> "filters/trim()"],
    [prefix |-> <<>>, hover |-> <<>>, description |-> "filters/upper"],
    [prefix |-> <<>>, hover |-> <<>>, description |-> "filters/url_encode"]
  >>

\* hover/functions.json, its entries in the order of the file
functionsArr ==
  <<
    [prefix |-> <<"attribute">>, hover |-> <<>>, description |-> "functions/attribute"],
    [prefix |-> <<"block">>, hover |-> <<>>, description |-> "functions/block"],
    [prefix |-> <<"constant">>, hover |-> <<>>, description |-> "functions/constant"],
    [prefix |-> <<"cycle">>, hover |-> <<>>, description |-> "functions/cycle"],
    [prefix |-> <<"date">>, hover |-> <<>>, description |-> "functions/date"],
    [prefix |-> <<"dump">>, hover |-> <<>>, description |-> "functions/dump"],
    [prefix |-> <<"include function">>, hover |-> <<>>, description |-> "functions/include"],
    [prefix |-> <<"max">>, hover |-> <<>>, description |-> "functions/max"],
    [prefix |-> <<"min">>, hover |-> <<>>, description |-> "functions/min"],
    [prefix |-> <<"parent">>, hover |-> <<>>, description |-> "functions/parent"],
    [prefix |-> <<"random">>, hover |-> <<"">>, description |-> "functions/random"],
    [prefix |-> <<"range set">>, hover |-> <<>>, description |-> "functions/range set"],
    [prefix |-> <<"range">>, hover |-> <<>>, description |-> "functions/range"],
    [prefix |-> <<"source">>, hover |-> <<>>, description |-> "functions/source"],
    [prefix |-> <<"template_from_string">>, hover |-> <<>>, description |-> "functions/template_from_string"]
  >>

\* hover/twig.json, its entries in the order of the file
twigArr ==
  <<
    [prefix |-> <<"show">>, hover |-> <<>>, description |-> "twig/show"],
    [prefix |-> <<"execute">>, hover |-> <<>>, description |-> "twig/execute"],
    [prefix |-> <<"autoescape">>, hover |-> <<>>, description |-> "twig/autoescape"],
    [prefix |-> <<"block">>, hover |-> <<>>, description |-> "twig/block"],
    [prefix |-> <<"do">>, hover |-> <<>>, description |-> "twig/do"],
    [prefix |-> <<"embed">>, hover |-> <<>>, description |-> "twig/embed"],
    [prefix |-> <<"extends">>, hover |-> <<>>, description |-> "twig/extends"],
    [prefix |-> <<"filter">>, hover |-> <<>>, description |-> "twig/filter"],
    [prefix |-> <<"flush">>, hover |-> <<>>, description |-> "twig/flush"],
    [prefix |-> <<"for">>, hover |-> <<>>, description |-> "twig/for"],
    [prefix |-> <<"for if">>, hover |-> <<>>, description |-> "twig/for if"],
    [prefix |-> <<"for else">>, hover |-> <<>>, description |-> "twig/for else"],
    [prefix |-> <<"for if else">>, hover |-> <<>>, description |-> "twig/for if else"],
    [prefix |-> <<"loop">>, hover |-> <<>>, description |-> "twig/loop"],
    [prefix |-> <<"if">>, hover |-> <<>>, description |-> "twig/if"],
    [prefix |-> <<"if else">>, hover |-> <<>>, description |-> "twig/if else"],
    [prefix |-> <<"else">>, hover |-> <<>>, description |-> "twig/else"],
    [prefix |-> <<"else if">>, hover |-> <<>>, description |-> "twig/else if"],
    [prefix |-> <<"import">>, hover |-> <<>>, description |-> "twig/import"],
    [prefix |-> <<"_self">>, hover |-> <<>>, description |-> "twig/_self"],
    [prefix |-> <<"include">>, hover |-> <<>>, description |-> "twig/include"],
    [prefix |-> <<"macro">>, hover |-> <<>>, description |-> "twig/macro"],
    [prefix |-> <<"sandbox">>, hover |-> <<>>, description |-> "twig/sandbox"],
    [prefix |-> <<"set">>, hover |-> <<>>, description |-> "twig/set"],
    [prefix |-> <<"set (block)">>, hover |-> <<>>, description |-> "twig/set block"],
    [prefix |-> <<"spaceless">>, hover |-> <<>>, description |-> "twig/spaceless"],
    [prefix |-> <<"use">>, hover |-> <<>>, description |-> "twig/use"],
    [prefix |-> <<"verbatim">>, hover |-> <<>>, description |-> "twig/verbatim"]
  >>

\* hover/alpine.json, its entries in the order of the file
alpineArr ==
  <<
    [prefix |-> <<"x-data">>, hover |-> <<"x-data">>, description |-> "alpine/x-data"],
    [prefix |-> <<"x-init">>, hover |-> <<"x-init">>, description |-> "alpine/x-init"],
    [prefix |-> <<"x-show">>, hover |-> <<"x-show">>, description |-> "alpine/x-show"],
    [prefix |-> <<"x-bind">>, hover |-> <<"x-bind">>, description |-> "alpine/x-bind"],
    [prefix |-> <<"x-on">>, hover |-> <<"x-on">>, description |-> "alpine/x-on"],
    [prefix |-> <<"x-model">>, hover |-> <<"x-model">>, description |-> "alpine/x-model"],
    [prefix |-> <<"x-text">>, hover |-> <<"x-text">>, description |-> "alpine/x-text"],
    [prefix |-> <<"x-html">>, hover |-> <<"x-html">>, description |-> "alpine/x-html"],
    [prefix |-> <<"x-ref">>, hover |-> <<"x-ref">>, description |-> "alpine/x-ref"],
    [prefix |-> <<"x-if">>, hover |-> <<"x-if">>, description |-> "alpine/x-if"],
    [prefix |-> <<"x-for">>, hover |-> <<"x-for">>, description |-> "alpine/x-for"],
    [prefix |-> <<"x-transition">>, hover |-> <<"x-transition">>, description |-> "alpine/x-transition"],
    [prefix |-> <<"x-effect">>, hover |-> <<"x-effect">>, description |-> "alpine/x-effect"],
    [prefix |-> <<"x-cloak">>, hover |-> <<"x-cloak">>, description |-> "alpine/x-cloak"],
    [prefix |-> <<"x-ignore">>, hover |-> <<"x-ignore">>, description |-> "alpine/x-ignore"],
    [prefix |-> <<"x-id">>, hover |-> <<"x-id">>, description |-> "alpine/x-id"],
    [prefix |-> <<"x-teleport">>, hover |-> <<"x-teleport">>, description |-> "alpine/x-teleport"],
    [prefix |-> <<"x-modelable">>, hover |-> <<"x-modelable">>, description |-> "alpine/x-modelable"],
    [prefix |-> <<>>, hover |-> <<"$el">>, description |-> "alpine/$el"],
    [prefix |-> <<>>, hover |-> <<"$refs">>, description |-> "alpine/$refs"],
    [prefix |-> <<>>, hover |-> <<"$store">>, description |-> "alpine/$store"],
    [prefix |-> <<>>, hover |-> <<"$watch">>, description |-> "alpine/$watch"],
    [prefix |-> <<>>, hover |-> <<"$dispatch">>, description |-> "alpine/$dispatch"],
    [prefix |-> <<>>, hover |-> <<"$nextTick">>, description |-> "alpine/$nextTick"],
    [prefix |-> <<>>, hover |-> <<"$root">>, description |-> "alpine/$root"],
    [prefix |-> <<>>, hover |-> <<"$data">>, description |-> "alpine/$data"],
    [prefix |-> <<>>, hover |-> <<"$id">>, description |-> "alpine/$id"]
  >>

\* createHover(snippet, type)
createHover(snippet, type) == [language |-> type, value |-> snippet.description]

\* snippet.prefix == word || snippet.hover == word
matches(snippet, word) ==
    \/ snippet.prefix # <<>> /\ snippet.prefix[1] = word
    \/ snippet.hover # <<>> /\ snippet.hover[1] = word

\* the loops of provideHover in the order tried differently: functions last
loopAfterFunctionsLast(loop) ==
    CASE loop = "filters" -> "twig"
      [] loop = "twig" -> "alpine"
      [] loop = "alpine" -> "functions"
      [] loop = "functions" -> "html"

\* the statement that follows a loop of provideHover that returned nothing
loopAfter(loop) ==
    CASE loop = "filters" -> "functions"
      [] loop = "functions" -> "twig"
      [] loop = "twig" -> "alpine"
      [] loop = "alpine" -> "html"

\* for (const snippet in table) if (...) return createHover(table[snippet], type)
searchTable(call, loop, table) ==
    LET hits == {k \in DOMAIN table : matches(table[k], call.word)}
    IN IF hits # {}
       THEN LET k == CHOOSE h \in hits : \A g \in hits : h <= g
            IN [call EXCEPT !.pc = "returned",
                            !.result = <<createHover(table[k], "twig")>>]
       ELSE [call EXCEPT !.pc = loopAfter(loop)]

\* the fallback: htmlLanguageService.doHover, converted to a vscode.Hover
askHtmlService(call) ==
    [call EXCEPT !.pc = "returned",
                 !.asked = TRUE,
                 !.result = IF call.service # <<>>
                            THEN <<[language |-> "", value |-> call.service[1]]>>
                            ELSE <<>>]

(***************************************************************************)
(* SpecHover: provideHover for every word of the tables and some words of  *)
(* none, the HTML language service having a hover for the position or not; *)
(* one loop per action.                                                    *)
(***************************************************************************)
TableWords ==
    UNION {{t[k].prefix[1] : k \in {j \in DOMAIN t : t[j].prefix # <<>>}}
           \cup {t[k].hover[1] : k \in {j \in DOMAIN t : t[j].hover # <<>>}} :
           t \in {snippetsArr, functionsArr, twigArr, alpineArr}}

\* words of no table: filters without prefix, an element, an attribute
OtherWords == {"raw", "abs", "div", "class", "Date", "x-unknown"}

InitHover ==
    /\ htmlLanguageService = TRUE
    /\ diagnosticCollection = FALSE
    /\ collection = <<>>
    /\ setCalls = 0
    /\ content = [d \in Docs |-> <<>>]
    /\ pass = NoPass
    /\ activation = "activated"
    /\ subscribed = FALSE
    /\ timeout = Undefined
    /\ timers = {}
    /\ now = 0
    /\ changeLog = <<>>
    /\ passLog = <<>>
    /\ opens = 0
    /\ activeTextEditor = WalkDoc
    /\ validation = FALSE
    /\ NoTextCall
    /\ entered = <<>>
    /\ config = FeaturesOn
    /\ providers = Registered(FeaturesOn)
    /\ \E word \in TableWords \cup OtherWords, service \in {<<>>, <<"html">>} :
           hoverCall = [word |-> word, pc |-> "filters", service |-> service,
                        asked |-> FALSE, result |-> <<>>]

HoverFrame ==
    /\ UNCHANGED <<source, processed, position, completions, textPc>>
    /\ ExtensionAtRest

SearchFilters ==
    /\ hoverCall.pc = "filters"
    /\ hoverCall' = searchTable(hoverCall, "filters", snippetsArr)
    /\ HoverFrame

SearchFunctions ==
    /\ hoverCall.pc = "functions"
    /\ hoverCall' = searchTable(hoverCall, "functions", functionsArr)
    /\ HoverFrame

SearchTwigTags ==
    /\ hoverCall.pc = "twig"
    /\ hoverCall' = searchTable(hoverCall, "twig", twigArr)
    /\ HoverFrame

SearchAlpine ==
    /\ hoverCall.pc = "alpine"
    /\ hoverCall' = searchTable(hoverCall, "alpine", alpineArr)
    /\ HoverFrame

AskHtmlService ==
    /\ hoverCall.pc = "html"
    /\ hoverCall' = askHtmlService(hoverCall)
    /\ HoverFrame

NextHover ==
    \/ SearchFilters
    \/ SearchFunctions
    \/ SearchTwigTags
    \/ SearchAlpine
    \/ AskHtmlService

SpecHover == InitHover /\ [][NextHover]_vars

(***************************************************************************)
(* Vocabulary of the properties of one pass (SpecWalk).                    *)
(***************************************************************************)
\* the tree under validation and its parsed nodes
WalkTree == content[WalkDoc]

WalkNodes == parseHTMLDocument(WalkTree).nodes

\* the void elements as the specification lists them
VoidTagNames == {"area", "base", "br", "col", "embed", "hr", "img", "input",
                 "link", "meta", "param", "source", "track", "wbr"}

\* the lowercased names a tag of the model can take
LowerTagNames == {"div", "span", "br"}

IsTagged(i) == WalkNodes[i].tag # NoTag

IsVoidTag(tag) == tag \in {"BR", "br"}

\* a tagged node that is no void element
IsElement(i) == IsTagged(i) /\ ~IsVoidTag(WalkNodes[i].tag)

HasEndTag(i) == WalkNodes[i].endTagStart # Undefined

\* the traversal reaches node i: the node and all its ancestors carry a tag
IsVisited(i) ==
    \A j \in 1..i : SubtreeLast(WalkTree, j) >= i => IsTagged(j)

\* the lowercase of the tag names of the model, written out
LowerName(tag) == IF tag \in {"div", "DIV"} THEN "div"
                  ELSE IF tag \in {"br", "BR"} THEN "br" ELSE tag

\* node j lies in the subtree of node i
IsBelow(i, j) == i < j /\ SubtreeLast(WalkTree, i) >= j

\* The trees the HTML parser builds from a text: every node is an element; a
\* void element has no children; an element without end tag stays open, so
\* what follows it becomes its child, never its sibling; an end tag closes the
\* nearest open element of its name, so no element left open inside a closed
\* element bears that element's name.
ParserYields ==
    /\ \A i \in DOMAIN WalkNodes : IsTagged(i)
    /\ \A i \in DOMAIN WalkNodes : IsVoidTag(WalkNodes[i].tag) => WalkNodes[i].children = <<>>
    /\ \A i \in DOMAIN WalkNodes :
          (IsElement(i) /\ ~HasEndTag(i)) =>
              \A j \in DOMAIN WalkNodes :
                  j > SubtreeLast(WalkTree, i) => WalkTree[j].depth < WalkTree[i].depth
    /\ \A i, j \in DOMAIN WalkNodes :
          (IsBelow(i, j) /\ HasEndTag(i) /\ ~HasEndTag(j) /\ IsElement(j)) =>
              LowerName(WalkNodes[i].tag) # LowerName(WalkNodes[j].tag)

\* the visited elements without end tag: the truly unclosed tags
UnclosedElements == {i \in DOMAIN WalkNodes : IsElement(i) /\ IsVisited(i) /\ ~HasEndTag(i)}

\* the Unclosed-tag diagnostic that names node i and covers its range
UnclosedOf(i) ==
    [range |-> [start |-> [line |-> 0, character |-> WalkNodes[i].start],
                end |-> [line |-> 0, character |-> WalkNodes[i].end]],
     message |-> "Unclosed tag: <" \o LowerName(WalkNodes[i].tag) \o ">",
     severity |-> "Error"]

IsUnclosedMessage(m) == \E n \in LowerTagNames : m = "Unclosed tag: <" \o n \o ">"

\* the list the pass published
Published == collection[WalkDoc]

PassDone == pass.pc = "done"

(***************************************************************************)
(* C1. A tree in which every tagged non-void node has a recorded           *)
(* end-tag-start: the pass publishes the empty list for the document.      *)
(***************************************************************************)
C1_AllClosed == \A i \in DOMAIN WalkNodes : IsElement(i) => HasEndTag(i)

C1_ClosedTreeNoDiagnostics ==
    (PassDone /\ C1_AllClosed) => (WalkDoc \in DOMAIN collection /\ Published = <<>>)

\* witness: a finished pass over <div><DIV></DIV><BR></div>-like trees: a closed
\* element inside a closed element, with nothing unclosed
C1_Witness ==
    /\ PassDone /\ C1_AllClosed
    /\ \E i, j \in DOMAIN WalkNodes :
          /\ i < j /\ SubtreeLast(WalkTree, i) >= j
          /\ IsElement(i) /\ IsElement(j) /\ IsVisited(j)

(***************************************************************************)
(* C2. A tree the parser yields, with exactly one non-void node without    *)
(* end-tag-start: exactly one Unclosed-tag diagnostic is published, and it *)
(* is the one naming that node over that node's range.                     *)
(***************************************************************************)
C2_OneUnclosedNamesIt ==
    (/\ PassDone
     /\ ParserYields
     /\ Cardinality(UnclosedElements) = 1)
    => LET u == CHOOSE i \in UnclosedElements : TRUE
           unclosed == {k \in DOMAIN Published : IsUnclosedMessage(Published[k].message)}
       IN /\ Cardinality(unclosed) = 1
          /\ \A k \in unclosed : Published[k] = UnclosedOf(u)

(***************************************************************************)
(* C3. For a tree the parser yields: when the traversal of all roots has   *)
(* ended, the frames on the tag stack are exactly the frames of the nodes  *)
(* without recorded end-tag-start, and no Unclosed-tag diagnostic is       *)
(* published for a node that has its end tag.                              *)
(***************************************************************************)
C3_StackIsTheUnclosed ==
    ParserYields =>
    /\ pass.pc \in {"report", "set"} =>
          {pass.tagStack[k].start : k \in DOMAIN pass.tagStack}
              = {WalkNodes[i].start : i \in UnclosedElements}
    /\ PassDone =>
          \A k \in DOMAIN Published :
              IsUnclosedMessage(Published[k].message) =>
                  \E i \in UnclosedElements : Published[k] = UnclosedOf(i)

(***************************************************************************)
(* C4. Void elements take no part in the stack: no frame names a void      *)
(* element, a step of a void node's validateNode never shortens the stack, *)
(* and no diagnostic, collected or published, names a void element as the  *)
(* unclosed, expected or found tag.                                        *)
(***************************************************************************)
C4_NamesVoid(m) ==
    \E v \in VoidTagNames :
        \/ m = "Unclosed tag: <" \o v \o ">"
        \/ \E n \in LowerTagNames :
              \/ m = "Mismatched tag: expected </" \o v \o ">, found </" \o n \o ">"
              \/ m = "Mismatched tag: expected </" \o n \o ">, found </" \o v \o ">"

C4_VoidFree(p, coll) ==
    /\ \A k \in DOMAIN p.tagStack : p.tagStack[k].name \notin VoidTagNames
    /\ \A k \in DOMAIN p.diagnostics : ~C4_NamesVoid(p.diagnostics[k].message)
    /\ \A u \in DOMAIN coll : \A k \in DOMAIN coll[u] : ~C4_NamesVoid(coll[u][k].message)

C4_VoidNeverOnStack ==
    [][/\ C4_VoidFree(pass, collection) /\ C4_VoidFree(pass', collection')
       /\ (pass.pc = "node" /\ IsVoidTag(CallNode(pass).tag))
              => /\ Len(pass'.tagStack) >= Len(pass.tagStack)
                 /\ pass'.diagnostics = pass.diagnostics]_vars

\* witness: a void node (BR) is about to return from validateNode while an
\* element's frame is on the stack
C4_Witness ==
    /\ pass.pc = "node" /\ TopCall(pass).at = "close"
    /\ IsVoidTag(CallNode(pass).tag)
    /\ Len(pass.tagStack) > 0

(***************************************************************************)
(* Vocabulary of the properties of the event handlers (Spec).              *)
(***************************************************************************)
\* the change events the listener answered by scheduling a validation
Scheduled == {i \in DOMAIN changeLog : changeLog[i].timer # 0}

\* the passes the timer of change event i has run
RunsOf(i) == {k \in DOMAIN passLog : passLog[k].timer = changeLog[i].timer}

IsPending(i) == \E t \in timers : t.id = changeLog[i].timer

\* i and j are scheduled change events with no scheduled one between them
Successive(i, j) ==
    /\ i \in Scheduled /\ j \in Scheduled /\ i < j
    /\ \A m \in Scheduled : ~(i < m /\ m < j)

\* j follows i by less than the quiet window
Within(i, j) == changeLog[j].time - changeLog[i].time < 300

\* the diagnostics of the two texts of the event model, written out
ListOf(tree) ==
    IF Len(tree) = 1 THEN <<>>
    ELSE <<[range |-> [start |-> [line |-> 0, character |-> 0],
                       end |-> [line |-> 0, character |-> 3]],
            message |-> "Mismatched tag: expected </span>, found </div>",
            severity |-> "Error"],
           [range |-> [start |-> [line |-> 0, character |-> 0],
                       end |-> [line |-> 0, character |-> 3]],
            message |-> "Unclosed tag: <div>",
            severity |-> "Error"]>>

(***************************************************************************)
(* C5. Two successive change events of twig documents less than 300 ms     *)
(* apart: the pass scheduled by the earlier one never runs; at most one    *)
(* pass runs for the two, the later one's, and exactly one once the later  *)
(* timer is neither pending nor superseded; every pass publishes one set.  *)
(***************************************************************************)
C5_DebounceRunsTheLater ==
    /\ setCalls = Len(passLog)
    /\ \A i, j \in Scheduled :
          (Successive(i, j) /\ Within(i, j)) =>
              /\ RunsOf(i) = {}
              /\ Cardinality(RunsOf(j)) <= 1
              /\ (~IsPending(j) /\ \A m \in Scheduled : m <= j)
                     => Cardinality(RunsOf(j)) = 1

\* witness: two change events 150 ms apart, and the later one's pass has run
C5_Witness ==
    \E i, j \in Scheduled :
        Successive(i, j) /\ Within(i, j) /\ RunsOf(i) = {} /\ Cardinality(RunsOf(j)) = 1

(***************************************************************************)
(* C6. A change event of another document never cancels a scheduled pass:  *)
(* the validation scheduled by the last change event of a document is      *)
(* pending or has run, whatever change events other documents had since.   *)
(***************************************************************************)
C6_OtherDocumentKeepsTimer ==
    \A i \in Scheduled :
        (\A j \in DOMAIN changeLog : j > i => changeLog[j].document # changeLog[i].document)
            => (IsPending(i) \/ RunsOf(i) # {})

(***************************************************************************)
(* C7. Once no scheduled validation is left to run, every twig document    *)
(* that had a change event has been validated after its last change, and   *)
(* the list recorded for it is that of its latest text.                    *)
(***************************************************************************)
C7_QuietMeansValidated ==
    timers = {} =>
        \A i \in Scheduled :
            (\A j \in DOMAIN changeLog : j > i => changeLog[j].document # changeLog[i].document)
                => LET d == changeLog[i].document
                   IN /\ RunsOf(i) # {}
                      /\ d \in DOMAIN collection
                      /\ collection[d] = ListOf(content[d])

(***************************************************************************)
(* C8. At most one scheduled validation is pending at any moment, it is    *)
(* the one the closure variable timeout holds, and no scheduled validation *)
(* runs twice.                                                             *)
(***************************************************************************)
C8_OnePendingValidation ==
    /\ Cardinality(timers) <= 1
    /\ \A t \in timers : t.id = timeout
    /\ \A i \in Scheduled : Cardinality(RunsOf(i)) <= 1
    /\ pass.pc = "idle"

\* witness: a second change event arrived while the first one's validation was
\* pending, and one validation is pending now
C8_Witness ==
    /\ Cardinality(timers) = 1
    /\ \E i, j \in Scheduled : Successive(i, j) /\ Within(i, j) /\ IsPending(j)

(***************************************************************************)
(* C9. A pass past the guard calls the sink exactly once: the list         *)
(* recorded for the validated document becomes the complete list of this   *)
(* pass's text, whatever was recorded before, and no other document's      *)
(* entry changes; the sink is never called outside a pass.                 *)
(***************************************************************************)
C9_OneFullReplace ==
    [][/\ (passLog' = passLog) => (setCalls' = setCalls /\ collection' = collection)
       /\ (passLog' # passLog) =>
              LET d == passLog'[Len(passLog')].document
              IN /\ passLog' = Append(passLog, passLog'[Len(passLog')])
                 /\ setCalls' = setCalls + 1
                 /\ DOMAIN collection' = DOMAIN collection \cup {d}
                 /\ collection'[d] = ListOf(content[d])
                 /\ \A u \in DOMAIN collection : u # d => collection'[u] = collection[u]]_vars

\* witness: a document validated at activation (two diagnostics), edited to
\* <div></div>, validated again by the timer: its entry is the empty list
C9_Witness ==
    \E k, m \in DOMAIN passLog :
        /\ k < m
        /\ passLog[k].document = passLog[m].document
        /\ passLog[k].trigger = "activate" /\ passLog[m].trigger = "timer"
        /\ collection[passLog[m].document] = <<>>
        /\ \E u \in DOMAIN collection : u # passLog[m].document /\ collection[u] # <<>>

(***************************************************************************)
(* C10. Every pass that runs is for a document whose languageId is twig,   *)
(* and no list is ever recorded for a document of another language.        *)
(***************************************************************************)
C10_OnlyTwigValidated ==
    /\ \A k \in DOMAIN passLog : passLog[k].document \in {"a.twig", "b.twig"}
    /\ \A u \in DOMAIN collection : u \in {"a.twig", "b.twig"}


(***************************************************************************)
(* Activation and the validation setting.                                  *)
(***************************************************************************)
\* nothing of the validator has run: no listener, no timer, no pass, no list
NothingInstalled ==
    /\ ~subscribed
    /\ ~htmlLanguageService /\ ~diagnosticCollection
    /\ timers = {} /\ timeout = Undefined
    /\ passLog = <<>> /\ setCalls = 0 /\ collection = <<>>

\* C11 (as stated): with the validation setting false nothing of the validator
\* is ever installed, run or published; with any other value the listeners are
\* installed during activation.
C11_ValidationGatesSubscription ==
    /\ ~validation => NothingInstalled
    /\ (validation /\ activation = "activated") => subscribed

\* C11 (amended): with the validation setting false nothing of the validator
\* is ever installed, run or published; with any other value the listeners are
\* installed during activation when there is an active editor with a document,
\* and nothing is installed when there is none.
C11_ValidationAndEditorGateSubscription ==
    /\ ~validation => NothingInstalled
    /\ (validation /\ activation = "activated" /\ activeTextEditor # NoEditor) => subscribed
    /\ (validation /\ activeTextEditor = NoEditor) => NothingInstalled

\* validation is off, the extension is active with an editor, a Twig document
\* was changed and one was opened, and the delay has passed
C11_Witness ==
    /\ ~validation /\ activation = "activated" /\ activeTextEditor # NoEditor
    /\ \E i \in DOMAIN changeLog :
           /\ languageId(changeLog[i].document) = "twig"
           /\ now >= changeLog[i].time + DebounceMs
    /\ opens > 0
    /\ NothingInstalled


(***************************************************************************)
(* validateDocument before initialization.                                 *)
(***************************************************************************)
Initialized == htmlLanguageService /\ diagnosticCollection

\* C12: a call of validateDocument while the language service or the
\* diagnostic collection is unset returns at once: nothing is parsed, no node
\* is visited, no diagnostic is built, no list is set for any document.
C12_UninitializedReturnsUntouched ==
    ~Initialized =>
        /\ pass.pc \in {"start", "returned"}
        /\ pass.htmlDocument = NoPass.htmlDocument
        /\ pass.callStack = <<>> /\ pass.tagStack = <<>> /\ pass.diagnostics = <<>>
        /\ collection = <<>> /\ setCalls = 0 /\ passLog = <<>>

\* the call has returned for a document with an unclosed element, with one of
\* the two variables unset
C12_Witness ==
    /\ ~Initialized
    /\ pass.pc = "returned"
    /\ \E i \in DOMAIN WalkNodes : IsElement(i) /\ ~HasEndTag(i)


(***************************************************************************)
(* The kinds of diagnostics.                                               *)
(***************************************************************************)
IsMismatchedMessage(m) ==
    \E a \in LowerTagNames, b \in LowerTagNames :
        m = "Mismatched tag: expected </" \o a \o ">, found </" \o b \o ">"

IsOfTheTwoKinds(d) ==
    /\ d.severity = "Error"
    /\ IsUnclosedMessage(d.message) \/ IsMismatchedMessage(d.message)

AtPush == pass.pc = "node" /\ TopCall(pass).at = "push"

AtClose == pass.pc = "node" /\ TopCall(pass).at = "close"

\* the node of the running activation of validateNode
Current == TopCall(pass).node

Height == Len(pass.tagStack)

\* the nodes of the document the pass has parsed
Parsed == pass.htmlDocument.nodes

\* node i of the parsed document is tagged and not void
Pushes(i) == Parsed[i].tag # NoTag /\ ~IsVoidTag(Parsed[i].tag)

\* the node pops: it is not void and the parser recorded an end-tag start
Pops(i) == Pushes(i) /\ Parsed[i].endTagStart # Undefined

\* the pass reaches node i: no node above it is untagged
Reached(i) == \A j \in 1..i : SubtreeLast(WalkTree, j) >= i => Parsed[j].tag # NoTag

\* C19: a node that pops emits a Mismatched tag diagnostic exactly when the
\* popped frame's name differs from its lowercased tag; the message names the
\* frame as expected and the node as found, the range runs from the node's
\* start to its end-tag start; a node that does not pop emits nothing.
C19_MismatchIffPoppedNameDiffers ==
    [][AtClose =>
          LET i == Current
              found == LowerName(WalkNodes[i].tag)
          IN IF Pops(i)
             THEN /\ Height > 0
                  /\ LET expected == pass.tagStack[Height].name
                     IN pass'.diagnostics =
                          IF expected # found
                          THEN Append(pass.diagnostics,
                                 [range |-> [start |-> [line |-> 0,
                                                        character |-> NodeStart(WalkTree, i)],
                                             end |-> [line |-> 0,
                                                      character |-> WalkNodes[i].endTagStart]],
                                  message |-> "Mismatched tag: expected </" \o expected
                                                \o ">, found </" \o found \o ">",
                                  severity |-> "Error"])
                          ELSE pass.diagnostics
             ELSE pass'.diagnostics = pass.diagnostics]_vars

\* a closed DIV has popped the frame of a span (a mismatch was emitted) and a
\* closed node has popped a frame of its own name written in another case
C19_Witness ==
    /\ pass.pc \in {"node", "roots"}
    /\ \E k \in DOMAIN pass.diagnostics :
           pass.diagnostics[k].message = "Mismatched tag: expected </span>, found </div>"
    /\ \E i \in DOMAIN WalkNodes : WalkNodes[i].tag = "DIV" /\ HasEndTag(i) /\ IsVisited(i)


\* the unclosed non-void nodes the pass visits among the nodes lo..hi
UnclosedIn(lo, hi) == {j \in lo..hi : Pushes(j) /\ ~Pops(j) /\ Reached(j)}

\* the activations of validateNode below the running one whose node pops
PoppingCallers ==
    {k \in 1..(Len(pass.callStack) - 1) : Pops(pass.callStack[k].node)}

\* the height of the stack when validateNode is entered for node i
HeightOnEntry(i) == Cardinality(UnclosedIn(1, i - 1)) + Cardinality(PoppingCallers)

\* C20: the opening step pushes one frame for a non-void node and none for a
\* void one; the closing step pops exactly the top frame for a node with an
\* end tag, never from an empty stack, and nothing otherwise; no other step
\* touches the stack; and when validateNode returns for a node the height is
\* the height on entry plus the unclosed non-void nodes visited in its subtree.
C20_FixedHeightChangePerNode ==
    /\ [](AtPush => Height = HeightOnEntry(Current))
    /\ [][IF AtPush
           THEN pass'.tagStack =
                    IF Pushes(Current)
                    THEN Append(pass.tagStack, pass'.tagStack[Height + 1])
                    ELSE pass.tagStack
           ELSE IF AtClose
           THEN /\ (Pops(Current) => Height > 0)
                /\ pass'.tagStack =
                       IF Pops(Current)
                       THEN SubSeq(pass.tagStack, 1, Height - 1)
                       ELSE pass.tagStack
                /\ Len(pass'.tagStack) =
                       HeightOnEntry(Current)
                       + Cardinality(UnclosedIn(Current, SubtreeLast(WalkTree, Current)))
           ELSE pass'.tagStack = pass.tagStack]_vars

\* validateNode has returned for a closed root whose subtree holds an unclosed
\* non-void node and a void node: one frame is left
C20_Witness ==
    /\ pass.pc = "roots" /\ pass.rootIdx = 2
    /\ Pops(1)
    /\ UnclosedIn(1, SubtreeLast(WalkTree, 1)) # {}
    /\ \E j \in 2..SubtreeLast(WalkTree, 1) :
           Parsed[j].tag # NoTag /\ ~Pushes(j) /\ Reached(j)
    /\ Height = Cardinality(UnclosedIn(1, SubtreeLast(WalkTree, 1)))


(***************************************************************************)
(* preprocessTwig: what the placeholders say about the text they replace.  *)
(***************************************************************************)
\* the offset of the first placeholder of a masked text, or -1 (no text of the
\* model holds "<")
FirstComment(out) == indexOf(out, <<"<">>, 0)

\* the first placeholder of a masked text is a TWIG_BLOCK one
IsBlockComment(out) == out[FirstComment(out) + 11] = "B"

\* the number of characters of the first placeholder
CommentWidth(out) == IF IsBlockComment(out) THEN 21 ELSE 20

\* the number written in the first placeholder
CommentCount(out) ==
    CHOOSE n \in 0..9 : ToString(n) = out[FirstComment(out) + CommentWidth(out) - 4]

RECURSIVE AccountsFor(_, _)
\* out is src with regions replaced by placeholders, each placeholder standing
\* for a region of its own kind ({% ... %} for TWIG_BLOCK, {{ ... }} for
\* TWIG_EXPR) that holds as many newlines as the placeholder says
AccountsFor(src, out) ==
    LET i == FirstComment(out)
    IN IF i = -1 THEN src = out
       ELSE /\ Len(src) >= i
            /\ substring(src, 0, i) = substring(out, 0, i)
            /\ \E e \in (i + 4)..Len(src) :
                   LET region == substring(src, i, e)
                       open == IF IsBlockComment(out) THEN <<"{", "%">> ELSE <<"{", "{">>
                       close == IF IsBlockComment(out) THEN <<"%", "}">> ELSE <<"}", "}">>
                   IN /\ OccursAt(region, open, 0)
                      /\ OccursAt(region, close, Len(region) - 2)
                      /\ newlines(region) = CommentCount(out)
                      /\ AccountsFor(substring(src, e, Len(src)),
                                     substring(out, i + CommentWidth(out), Len(out)))

\* C14: when preprocessTwig has returned, every placeholder of the result
\* stands for a region of the source holding exactly the number of newlines
\* written in the placeholder.
C14_PlaceholderCountsRemovedNewlines ==
    textPc = "returned" => AccountsFor(source, processed)


(***************************************************************************)
(* preprocessTwig: unterminated delimiters.                                *)
(***************************************************************************)
\* pat begins somewhere after offset p of s
BeginsAfter(s, pat, p) == \E k \in (p + 1)..Len(s) : OccursAt(s, pat, k)

\* an opening delimiter at offset p of s with no closing delimiter of its kind
\* after it
UnterminatedAt(s, p) ==
    \/ OccursAt(s, BlockOpen, p) /\ ~BeginsAfter(s, BlockClose, p)
    \/ OccursAt(s, ExprOpen, p) /\ ~BeginsAfter(s, ExprClose, p)

\* out ends with the characters of s from offset p on
KeepsTail(s, p, out) ==
    /\ Len(out) >= Len(s) - p
    /\ substring(out, Len(out) - (Len(s) - p), Len(out)) = substring(s, p, Len(s))

\* C15 (as stated): preprocessTwig returns for every text, and the result
\* equals the source from every unterminated opening delimiter to the end.
C15_UnterminatedTailUnchanged ==
    textPc = "returned" =>
        \A p \in 0..Len(source) :
            UnterminatedAt(source, p) => KeepsTail(source, p, processed)

\* C15 (amended): preprocessTwig returns for every text, and the result equals
\* the source from an unterminated opening delimiter to the end when no closing
\* delimiter of either kind begins after that delimiter; the first statement
\* alone keeps the text from an unterminated {% on, whatever follows it.
C15_UnterminatedTailUnchangedIfNoCloserFollows ==
    /\ textPc = "returned" =>
           \A p \in 0..Len(source) :
               (/\ UnterminatedAt(source, p)
                /\ ~BeginsAfter(source, BlockClose, p)
                /\ ~BeginsAfter(source, ExprClose, p))
               => KeepsTail(source, p, processed)
    /\ textPc = "expressions" =>
           \A p \in 0..Len(source) :
               (OccursAt(source, BlockOpen, p) /\ ~BeginsAfter(source, BlockClose, p))
               => KeepsTail(source, p, processed)

\* preprocessTwig has returned for a text with a masked region followed by an
\* unterminated {% that has text but no closing delimiter after it
C15_Witness ==
    /\ textPc = "returned"
    /\ processed # source
    /\ \E p \in 1..(Len(source) - 3) :
           /\ OccursAt(source, BlockOpen, p)
           /\ ~BeginsAfter(source, BlockClose, p)
           /\ ~BeginsAfter(source, ExprClose, p)
           /\ KeepsTail(source, p, processed)


(***************************************************************************)
(* Completions inside Twig code.                                           *)
(***************************************************************************)
Returned == textPc = "returned"

Offered(category) == \E k \in DOMAIN completions : completions[k] = category

\* the offset of the cursor in the document
Cursor == LineStart(source, position.line) + position.character

\* an occurrence of pat that lies wholly before the cursor
BeforeCursor(pat, i) == OccursAt(source, pat, i) /\ i + Len(pat) <= Cursor

\* an occurrence of pat that lies wholly after the cursor
AfterCursor(pat, i) == OccursAt(source, pat, i) /\ i >= Cursor

Offsets == 0..Len(source)

\* the last {% before the cursor comes after every %} before the cursor, and
\* a %} follows the cursor
CursorInOpenBlock ==
    /\ \E i \in Offsets :
           /\ BeforeCursor(<<"{", "%">>, i)
           /\ \A k \in Offsets : BeforeCursor(<<"%", "}">>, k) => k < i
    /\ \E k \in Offsets : AfterCursor(<<"%", "}">>, k)

RECURSIVE BlockSpans(_)
\* the {% ... %} blocks of the document from offset `from` on, each as its
\* first offset and the offset after its last character
BlockSpans(from) ==
    LET starts == {i \in from..Len(source) :
                     /\ OccursAt(source, <<"{", "%">>, i)
                     /\ \E k \in (i + 2)..Len(source) : OccursAt(source, <<"%", "}">>, k)}
    IN IF starts = {} THEN {}
       ELSE LET o == CHOOSE i \in starts : \A j \in starts : i <= j
                c == CHOOSE k \in (o + 2)..Len(source) :
                         /\ OccursAt(source, <<"%", "}">>, k)
                         /\ \A j \in (o + 2)..(k - 1) : ~OccursAt(source, <<"%", "}">>, j)
            IN {<<o, c + 2>>} \cup BlockSpans(c + 2)

\* the cursor is not within any {% ... %} block
CursorOutsideEveryBlock ==
    \A span \in BlockSpans(0) : Cursor <= span[1] \/ Cursor >= span[2]

C17_WitnessOutside ==
    /\ Returned
    /\ ~Offered("twigTags")
    /\ CursorOutsideEveryBlock
    /\ \E k \in Offsets : BeforeCursor(<<"%", "}">>, k)
    /\ \E k \in Offsets : AfterCursor(<<"%", "}">>, k)


\* the cursor is in a {{ ... }} expression: a {{ lies before it after every }}
\* before it, and a }} follows it
CursorInOpenExpression ==
    /\ \E i \in Offsets :
           /\ BeforeCursor(<<"{", "{">>, i)
           /\ \A k \in Offsets : BeforeCursor(<<"}", "}">>, k) => k < i
    /\ \E k \in Offsets : AfterCursor(<<"}", "}">>, k)

\* the character just before the cursor is a |
CursorRightAfterPipe == Cursor > 0 /\ source[Cursor] = "|"

\* no | stands anywhere before the cursor
NoPipeBeforeCursor == \A k \in 1..Cursor : source[k] # "|"

\* C18: the Twig filter completions are in the result when the cursor stands
\* right after a | inside a {{ ... }} expression or inside a {% ... %} block,
\* and are not in the result when no | precedes the cursor.
C18_FiltersAfterPipeInTwigCode ==
    Returned =>
        /\ (CursorRightAfterPipe /\ CursorInOpenExpression) => Offered("twigFilters")
        /\ (CursorRightAfterPipe /\ CursorInOpenBlock) => Offered("twigFilters")
        /\ NoPipeBeforeCursor => ~Offered("twigFilters")

\* the part of C18 about {{ ... }} expressions and about cursors with no |
\* before them
C18_FiltersAfterPipeInExpression ==
    Returned =>
        /\ (CursorRightAfterPipe /\ CursorInOpenExpression) => Offered("twigFilters")
        /\ NoPipeBeforeCursor => ~Offered("twigFilters")


(***************************************************************************)
(* The report of the frames left on the stack.                             *)
(***************************************************************************)
AtReport == pass.pc = "report"

\* the Unclosed tag diagnostic of a frame, written out
UnclosedFor(frame) ==
    [range |-> [start |-> [line |-> 0, character |-> frame.start],
                end |-> [line |-> 0, character |-> frame.end]],
     message |-> "Unclosed tag: <" \o frame.name \o ">",
     severity |-> "Error"]

\* C21: a pushed frame records the node's lowercased name, its start and its
\* end-tag start when recorded, else its end; when all roots are traversed the
\* stack holds as many frames as unclosed non-void nodes were visited, every
\* diagnostic built so far is a Mismatched one, and the report appends one
\* Unclosed diagnostic per frame, bottom frame first, with the frame's name
\* and offsets.
C21_OneUnclosedPerFrameLeft ==
    /\ [](AtReport =>
            /\ Height = Cardinality(UnclosedIn(1, Len(Parsed)))
            /\ \A k \in DOMAIN pass.diagnostics :
                   IsMismatchedMessage(pass.diagnostics[k].message))
    /\ [][IF AtPush /\ Pushes(Current)
           THEN pass'.tagStack[Height + 1] =
                    [name |-> LowerName(Parsed[Current].tag),
                     start |-> Parsed[Current].start,
                     end |-> IF Parsed[Current].endTagStart # Undefined
                             THEN Parsed[Current].endTagStart
                             ELSE Parsed[Current].end]
           ELSE AtReport =>
                pass'.diagnostics =
                    pass.diagnostics
                    \o [k \in 1..Height |-> UnclosedFor(pass.tagStack[k])]]_vars

\* a finished pass that published a Mismatched diagnostic followed by the
\* Unclosed diagnostics of two frames of different names
C21_Witness ==
    /\ PassDone
    /\ Len(Published) = 3
    /\ IsMismatchedMessage(Published[1].message)
    /\ IsUnclosedMessage(Published[2].message)
    /\ IsUnclosedMessage(Published[3].message)
    /\ Published[2].message # Published[3].message


(***************************************************************************)
(* The nodes the pass visits.                                              *)
(***************************************************************************)
\* the nodes validateNode was called for
Entered == {entered[k] : k \in DOMAIN entered}

\* the roots and children loops have ended
WalkOver == pass.pc \in {"report", "set", "done"}

\* C22: validateNode is called for tagged nodes only, never for a node that
\* has an untagged node above it, in document order; every frame and every
\* diagnostic comes from a node it was called for; and when the traversal is
\* over it has been called for every tagged node without an untagged node
\* above it, the tagged nodes beneath void nodes included.
C22_UntaggedSubtreesSkipped ==
    /\ \A k \in DOMAIN entered : Parsed[entered[k]].tag # NoTag /\ Reached(entered[k])
    /\ \A k, l \in DOMAIN entered : k < l => entered[k] < entered[l]
    /\ \A f \in DOMAIN pass.tagStack :
           \E i \in Entered : Pushes(i) /\ Parsed[i].start = pass.tagStack[f].start
    /\ \A d \in DOMAIN pass.diagnostics :
           \E i \in Entered :
               Parsed[i].start = pass.diagnostics[d].range.start.character
    /\ WalkOver => Entered = {i \in DOMAIN Parsed : Reached(i)}

\* the traversal is over for a document in which a tagged node lies beneath
\* an untagged node and was not visited, while another node was
C22_Witness ==
    /\ WalkOver
    /\ Entered # {}
    /\ \E i, j \in DOMAIN Parsed :
           /\ Parsed[i].tag = NoTag /\ IsBelow(i, j) /\ Parsed[j].tag # NoTag
           /\ j \notin Entered

\* the traversal is over for a document in which a tagged node beneath a
\* void node was visited
C22_WitnessBeneathVoid ==
    /\ WalkOver
    /\ \E i, j \in Entered : IsVoidTag(Parsed[i].tag) /\ IsBelow(i, j)


(***************************************************************************)
(* The ranges of the diagnostics.                                          *)
(***************************************************************************)
\* the offset of the original text that positionAt looks up for an offset
Brought(offset) == IF offset > Len(source) THEN Len(source) ELSE offset

\* pos is the position of the original document at the offset
IsPositionOf(pos, offset) ==
    /\ pos \in Positions(source)
    /\ offsetAt(source, pos) = Brought(offset)

\* the offsets a diagnostic of node i can run between: from its start to its
\* end-tag start when recorded, else to its end
EndOffset(i) ==
    IF Parsed[i].endTagStart # Undefined THEN Parsed[i].endTagStart ELSE Parsed[i].end

\* d runs over node i of the tree parsed from the masked text
RunsOver(d, i) ==
    /\ IsPositionOf(d.range.start, Parsed[i].start)
    /\ IsPositionOf(d.range.end, EndOffset(i))
    /\ offsetAt(source, d.range.start) <= offsetAt(source, d.range.end)
    /\ processed = source =>
           /\ offsetAt(source, d.range.start) = Parsed[i].start
           /\ offsetAt(source, d.range.end) = EndOffset(i)

\* C23: the two ends of every diagnostic are the positions of the original
\* document at the start and end offsets of a node of the tree parsed from
\* the masked text, looked up as they are; in a document without Twig region
\* they are the node's exact offsets; the start never lies after the end.
C23_RangeIsPositionAtOfNodeOffsets ==
    /\ \A k \in DOMAIN pass.diagnostics :
           \E i \in DOMAIN Parsed : RunsOver(pass.diagnostics[k], i)
    /\ \A u \in DOMAIN collection :
           \A k \in DOMAIN collection[u] :
               \E i \in DOMAIN Parsed : RunsOver(collection[u][k], i)

\* a published diagnostic of a document with a line break and a Twig region
\* whose node ends beyond the end of the original text: the range ends at the
\* last position of the document, on its second line
C23_Witness ==
    /\ PassDone
    /\ processed # source
    /\ \E i \in DOMAIN Parsed : EndOffset(i) > Len(source)
    /\ \E k \in DOMAIN collection[RangeDoc] :
           /\ collection[RangeDoc][k].range.end.line = 1
           /\ offsetAt(source, collection[RangeDoc][k].range.end) = Len(source)


(***************************************************************************)
(* preprocessTwig: the rule of each of its two passes.                     *)
(***************************************************************************)
\* an opening delimiter at offset o of s with a closing delimiter after it
StartsRegion(s, open, close, o) ==
    /\ OccursAt(s, open, o)
    /\ \E c \in (o + 2)..Len(s) : OccursAt(s, close, c)

RECURSIVE IsMaskingOf(_, _, _, _, _)
\* out is s with every region replaced, from left to right: up to the first
\* placeholder the two agree and no region starts; the placeholder stands
\* where a region starts, the region ends with the first closing delimiter
\* after its opening one, the placeholder holds the number of its line
\* breaks; and so on behind the region
IsMaskingOf(out, s, open, close, prefix) ==
    LET i == indexOf(out, prefix, 0)
    IN IF i = -1
       THEN out = s /\ \A o \in 0..Len(s) : ~StartsRegion(s, open, close, o)
       ELSE /\ Len(s) >= i + 4
            /\ substring(out, 0, i) = substring(s, 0, i)
            /\ \A o \in 0..(i - 1) : ~StartsRegion(s, open, close, o)
            /\ OccursAt(s, open, i)
            /\ \E c \in (i + 2)..Len(s) :
                   /\ OccursAt(s, close, c)
                   /\ \A k \in (i + 2)..(c - 1) : ~OccursAt(s, close, k)
                   /\ LET n == Cardinality({k \in (i + 1)..(c + 2) : s[k] = "\n"})
                          width == Len(prefix) + 5
                      IN /\ Len(out) >= i + width
                         /\ substring(out, i, i + width)
                              = prefix \o <<ToString(n)>> \o <<" ", "-", "-", ">">>
                         /\ IsMaskingOf(substring(out, i + width, Len(out)),
                                        substring(s, c + 2, Len(s)), open, close, prefix)

\* C24: the first statement turns the source into its masking for {% ... %}
\* with TWIG_BLOCK placeholders; the second statement turns the result of the
\* first into its masking for {{ ... }} with TWIG_EXPR placeholders.
C24_BlocksThenExpressions ==
    [][/\ textPc = "blocks" =>
           IsMaskingOf(processed', source, <<"{", "%">>, <<"%", "}">>, BlockPrefix)
       /\ textPc = "expressions" =>
           IsMaskingOf(processed', processed, <<"{", "{">>, <<"}", "}">>, ExprPrefix)]_vars

\* preprocessTwig has returned a text that holds a placeholder of each kind
\* and a character and a line break of the source
C24_Witness ==
    /\ textPc = "returned"
    /\ includes(processed, BlockPrefix) /\ includes(processed, ExprPrefix)
    /\ includes(processed, <<"a">>) \/ includes(processed, <<"\n">>)


(***************************************************************************)
(* The debounce timer and the events that are not changes of a twig        *)
(* document.                                                               *)
(***************************************************************************)
\* the step is the change listener called for a twig document
TwigChangeStep ==
    /\ Len(changeLog') = Len(changeLog) + 1
    /\ languageId(changeLog'[Len(changeLog')].document) = "twig"

\* the step is the change listener called for a document of another language
OtherChangeStep ==
    /\ Len(changeLog') = Len(changeLog) + 1
    /\ languageId(changeLog'[Len(changeLog')].document) # "twig"

\* the step is the open listener
OpenStep == opens' = opens + 1

\* the step is the callback of timer t
FiringStep(t) ==
    /\ Len(passLog') = Len(passLog) + 1
    /\ passLog'[Len(passLog')].trigger = "timer"
    /\ passLog'[Len(passLog')].timer = t.id

\* C25: an open event and a change event on a non-twig document leave the
\* timer handle and every pending validation, with its deadline, as they
\* were; the handle changes, and a pending validation goes away without
\* having run, in a change event on a twig document only.
C25_OnlyTwigChangeTouchesTimer ==
    [][IF OpenStep \/ OtherChangeStep
       THEN timers' = timers /\ timeout' = timeout
       ELSE IF TwigChangeStep
            THEN TRUE
            ELSE /\ timeout' = timeout
                 /\ timers' \subseteq timers
                 /\ \A t \in timers \ timers' : FiringStep(t)]_vars

\* a validation scheduled by a change of a.twig is still pending although,
\* after that change, a non-twig document was changed and a.twig was opened
\* and validated with its changed text
C25_Witness ==
    /\ Len(changeLog) = 2
    /\ changeLog[1].document = "a.twig" /\ changeLog[2].document = "c.html"
    /\ \E t \in timers : t.id = changeLog[1].timer /\ t.due = changeLog[1].time + DebounceMs
    /\ content["a.twig"] # InitialTree
    /\ Len(passLog) > 0
    /\ passLog[Len(passLog)].trigger = "open"
    /\ passLog[Len(passLog)].document = "a.twig"
    /\ "a.twig" \in DOMAIN collection /\ collection["a.twig"] = <<>>


(***************************************************************************)
(* Whose frame a closed node pops.                                         *)
(***************************************************************************)
\* the frame pushed for node i (node starts differ from node to node)
IsFrameOf(frame, i) == frame.start = Parsed[i].start

OnStack(i, stack) == \E k \in DOMAIN stack : IsFrameOf(stack[k], i)

\* the nodes beneath node i
Beneath(i) == (i + 1)..SubtreeLast(WalkTree, i)

\* validateNode has returned for node i
HasReturned(i) ==
    /\ i \in Entered
    /\ \A k \in DOMAIN pass.callStack : pass.callStack[k].node # i

\* the closing step of a node that pops takes the node's own frame exactly
\* when no unclosed non-void node was visited beneath it, and the frame of a
\* node beneath it otherwise
PopsOwnIffSubtreeClosed ==
    (AtClose /\ Pops(Current)) =>
        LET top == pass.tagStack[Height]
        IN /\ IsFrameOf(top, Current) <=> UnclosedIn(Current + 1, SubtreeLast(WalkTree, Current)) = {}
           /\ ~IsFrameOf(top, Current) =>
                  /\ \E j \in Beneath(Current) : Pushes(j) /\ Reached(j) /\ IsFrameOf(top, j)
                  /\ OnStack(Current, pass'.tagStack)

\* the closed nodes that returned leaving their own frame behind
LeftOwnFrame ==
    {i \in DOMAIN Parsed :
        /\ HasReturned(i)
        /\ Pops(i)
        /\ UnclosedIn(i + 1, SubtreeLast(WalkTree, i)) # {}}

\* C26 as stated: a closed node pops its own frame iff nothing unclosed was
\* visited beneath it, a descendant's frame otherwise, and in that case its
\* own frame is on the stack from then on to the end of the pass.
C26_OwnFrameStaysToTheEnd ==
    /\ [][PopsOwnIffSubtreeClosed]_vars
    /\ [](pass.pc \in {"node", "roots", "report"} =>
             \A i \in LeftOwnFrame : OnStack(i, pass.tagStack))

\* C26, amended: a closed node pops its own frame iff nothing unclosed was
\* visited beneath it, a descendant's frame otherwise; in that case its own
\* frame is on the stack when it returns and leaves the stack only in the
\* closing step of a closed node above it.
C26_OwnFrameStaysUntilAncestorPops ==
    [][/\ PopsOwnIffSubtreeClosed
       /\ \A i \in LeftOwnFrame :
              (OnStack(i, pass.tagStack) /\ ~OnStack(i, pass'.tagStack)) =>
                  (AtClose /\ Pops(Current) /\ i \in Beneath(Current))]_vars

\* the walk is over for <div><div><span></div></div>: the inner div popped the
\* span's frame, the outer div popped the inner div's, the outer div's is left
C26_Witness ==
    /\ pass.pc = "report"
    /\ Len(Parsed) = 3
    /\ Parsed[1].tag = "div" /\ Parsed[2].tag = "div" /\ Parsed[3].tag = "span"
    /\ Beneath(1) = {2, 3} /\ Beneath(2) = {3}
    /\ Pops(1) /\ Pops(2) /\ Pushes(3) /\ ~Pops(3)
    /\ 2 \in LeftOwnFrame
    /\ ~OnStack(2, pass.tagStack)
    /\ OnStack(1, pass.tagStack)


(***************************************************************************)
(* preprocessTwig applied to its own output.                               *)
(***************************************************************************)
\* s holds no {% with a %} after it and no {{ with a }} after it
NoCompleteRegion(s) ==
    \A o \in 0..Len(s) :
        /\ ~StartsRegion(s, <<"{", "%">>, <<"%", "}">>, o)
        /\ ~StartsRegion(s, <<"{", "{">>, <<"}", "}">>, o)

\* C27: the text preprocessTwig returns holds no complete Twig region, and
\* preprocessTwig applied to it returns it unchanged.
C27_OutputHasNoRegionAndIsFixed ==
    textPc = "returned" =>
        /\ NoCompleteRegion(processed)
        /\ preprocessTwig(processed) = processed

\* preprocessTwig has returned a text unlike its source that holds a
\* placeholder of each kind and still an opening delimiter without a closing one
C27_Witness ==
    /\ textPc = "returned"
    /\ processed # source
    /\ \E i, j \in 0..Len(processed) :
           /\ OccursAt(processed, BlockPrefix, i)
           /\ OccursAt(processed, ExprPrefix, j)
    /\ \E o \in 0..Len(processed) :
           OccursAt(processed, <<"{", "{">>, o) \/ OccursAt(processed, <<"{", "%">>, o)


(***************************************************************************)
(* After the subscriptions are disposed.                                   *)
(***************************************************************************)
\* C28: once the subscriptions are disposed no validation is pending (the
\* one the debounce timer held is cancelled), no pass runs and no list is
\* published.
C28_NothingRunsAfterDisposal ==
    /\ [](Disposed => timers = {})
    /\ [][Disposed => (passLog' = passLog /\ collection' = collection)]_vars


(***************************************************************************)
(* Activation without an active text editor.                               *)
(***************************************************************************)
\* C29: with no active text editor nothing is ever initialized, whatever the
\* settings are: no listener, no language service, no collection, no provider
\* of completions, hovers or formatting, no timer, and no pass or published
\* list for any document opened or changed later.
C29_NoEditorNothingInitialized ==
    activeTextEditor = NoEditor =>
        /\ ~subscribed /\ ~htmlLanguageService /\ ~diagnosticCollection
        /\ providers = {}
        /\ timers = {} /\ timeout = Undefined
        /\ passLog = <<>> /\ setCalls = 0 /\ collection = <<>>

\* activate has run without an active editor with validation and every
\* feature switched on; since then a twig document was changed and the
\* debounce delay has passed, and a document was opened
C29_Witness ==
    /\ activation = "activated"
    /\ activeTextEditor = NoEditor
    /\ validation /\ config = FeaturesOn
    /\ \E i \in DOMAIN changeLog :
           /\ languageId(changeLog[i].document) = "twig"
           /\ now >= changeLog[i].time + DebounceMs
    /\ opens > 0


(***************************************************************************)
(* The order in which provideHover consults its tables.                    *)
(***************************************************************************)
\* filters, functions, Twig tags, Alpine
TablesInOrder == <<snippetsArr, functionsArr, twigArr, alpineArr>>

\* the entries of table n whose prefix or hover field is the word
EntriesFor(n, word) ==
    {k \in DOMAIN TablesInOrder[n] :
        word \in {TablesInOrder[n][k].prefix[i] : i \in DOMAIN TablesInOrder[n][k].prefix}
                 \cup {TablesInOrder[n][k].hover[i] : i \in DOMAIN TablesInOrder[n][k].hover}}

TablesWith(word) == {n \in DOMAIN TablesInOrder : EntriesFor(n, word) # {}}

Least(S) == CHOOSE x \in S : \A y \in S : x <= y

\* C30: provideHover returns the hover of the first entry for the word in the
\* earliest of the tables filters, functions, Twig tags, Alpine that has one,
\* without consulting the HTML language service; it consults the service,
\* and returns what the service has, only when no table has an entry; so
\* `date` yields the filter and `block` the function.
C30_EarliestTableWins ==
    LET word == hoverCall.word
    IN /\ hoverCall.asked => TablesWith(word) = {}
       /\ hoverCall.pc = "returned" =>
              IF TablesWith(word) # {}
              THEN LET n == Least(TablesWith(word))
                       k == Least(EntriesFor(n, word))
                   IN /\ ~hoverCall.asked
                      /\ Len(hoverCall.result) = 1
                      /\ hoverCall.result[1].value = TablesInOrder[n][k].description
                      /\ word = "date" => hoverCall.result[1].value = "filters/date"
                      /\ word = "block" => hoverCall.result[1].value = "functions/block"
              ELSE /\ hoverCall.asked
                   /\ hoverCall.result =
                          [i \in DOMAIN hoverCall.service |->
                              [language |-> "", value |-> hoverCall.service[i]]]

\* provideHover has returned for `block`, which the functions and the Twig
\* tags both have, with the function's hover, the service having one too
C30_Witness ==
    /\ hoverCall.pc = "returned"
    /\ hoverCall.word = "block"
    /\ TablesWith("block") = {2, 3}
    /\ hoverCall.service # <<>>
    /\ hoverCall.result = <<[language |-> "twig", value |-> "functions/block"]>>

====
